---------------------------- MODULE Spec2Model ----------------------------
(***************************************************************************)
(* A model of the GeNN code-generation core and its runtime loader:       *)
(*   - the generated stepTime and the spike / dendritic delay rings       *)
(*     (generateRunner, the queue-update and presynaptic-update emitters) *)
(*   - the synapse-group part of the model description (constructor,      *)
(*     setters, fuse digests)                                              *)
(*   - the SIMT kernels' accumulation and spike enqueueing                 *)
(*   - the Runtime's ownership of the loaded library.                      *)
(* Each part has its own specification over its own group of variables;    *)
(* the variables of the other parts stay at their idle values.            *)
(***************************************************************************)
EXTENDS Integers, Sequences, FiniteSets, TLC

(***************************************************************************)
(* Bounds of the model                                                     *)
(***************************************************************************)
MaxDelaySlots == 4
MaxSteps == 12
MaxSpikes == 2
MaxDendriticDelay == 3
MaxSynapseGroups == 2
MaxDelaySteps == 2
MaxParamValue == 2
PresynapticUpdateBlockSize == 2
MaxTrgNeurons == 3
MaxConnections == 3
NumSrcNeurons == 2
NeuronUpdateBlockSize == 2
NumNeurons == 3
MaxRuntimeSteps == 3
MaxBatchSize == 2
MaxDT == 2
MaxRuntimeDendriticDelay == 2
MaxRecordingTimesteps == 1
MaxAllocateCalls == 2
RuntimeNumNeurons == 3
MaxFinaliseCalls == 2
MaxChildGroups == 2
MaxV == 1
MaxNeuronUpdates == 2
MaxThreadsPerSpike == 2
MaxBitmaskPre == 4
MaxBitmaskRowStride == 16
MaxKernelDimensions == 3
MaxKernelSize == 3
KernelInitBlockSize == 4
MaxMergedGroupSize == 3
MaxPaddedSize == 2
MaxIdStart == 1
MaxSparseSrcNeurons == 5
MaxSparseRowStride == 2
MaxSparseBlockSize == 3


(***************************************************************************)
(* Part 1: the generated stepTime, the spike queue and the dendritic       *)
(* delay pointer.  One source neuron group that requires delay, one       *)
(* outgoing synapse group with delaySteps >= 1.                            *)
(***************************************************************************)
VARIABLES
    mode,                         \* "build": setters may run; "run": code is generated
    numDelaySlots,                \* NeuronGroup::getNumDelaySlots of the source group
    delaySteps,                   \* SynapseGroup::getDelaySteps
    dendriticDelayRequired,       \* SynapseGroup::isDendriticDelayRequired
    maxDendriticDelayTimesteps,   \* SynapseGroup::m_MaxDendriticDelayTimesteps
    stPos,                        \* statements of stepTime already executed (0: not in a call)
    stepLog,                      \* the phases executed so far by the current stepTime call
    iT,                           \* the timestep counter
    spkQuePtr,                    \* spkQuePtr<group>
    denDelayPtr,                  \* denDelayPtr<group>
    spkQueue,                     \* per delay slot: timestep whose spikes it holds, -1 when its count is 0
    lastRead,                     \* what the last presynaptic update read: <<timestep, emission stamp or -1>>
    readSlot,                     \* history: the last presynaptic read: <<timestep, slot, spkQuePtr>>
    writeSlot,                    \* history: the last neuron update write: <<timestep, slot>>
    emitted                       \* history: the timesteps in which the neuron update emitted a spike

stepVars == <<mode, numDelaySlots, delaySteps, dendriticDelayRequired,
              maxDendriticDelayTimesteps, stPos, stepLog, iT, spkQuePtr,
              denDelayPtr, spkQueue, lastRead, emitted, readSlot, writeSlot>>

\* Part 2: the model description (neuron groups and their synapse groups)
VARIABLES
    ngNumDelaySlots,              \* per neuron group: NeuronGroup::getNumDelaySlots
    synapseGroups                 \* the synapse groups added so far, in order of construction

irVars == <<ngNumDelaySlots, synapseGroups>>

\* Part 3: two synapse groups A and B with the same target neuron group, and the fusing
\* of their postsynaptic models
VARIABLES
    sgPS,                         \* per group: the postsynaptic model, its parameters and initialisers
    sgWU,                         \* per group: the weight update model, its parameters and delays
    shouldFusePostsynapticModels, \* ModelSpec::m_ShouldFusePostsynapticModels
    hashCall,                     \* the fuse digests of A and B as last computed: [fn, a, b]
    fusedPSTarget                 \* B's m_FusedPSTarget: "unset" before the fuse pass, then "none" or "A"

fuseVars == <<sgPS, sgWU, shouldFusePostsynapticModels, hashCall, fusedPSTarget>>

\* Part 4: one launch of the presynaptic update kernel for one synapse group
VARIABLES
    ksg,                          \* the synapse group the kernel was generated for, and its input
    inSyn,                        \* dd_inSyn: per target neuron
    denDelay,                     \* dd_denDelay: per target neuron (one delay slot)
    shLg,                         \* per block: the shared array shLg
    linSyn,                       \* per thread: the register linSyn
    tpc,                          \* per thread: where it is in the kernel
    tj,                           \* per thread: the spike (or synapse) it handles next
    contributed                   \* history: per accumulator element, the sum of what was added

presynVars == <<ksg, inSyn, denDelay, shLg, linSyn, tpc, tj, contributed>>

\* Part 5: one launch of the neuron update kernel for one neuron group
VARIABLES
    nng,                          \* the neuron group: its delay slots and its spkQuePtr
    shSpkCount,                   \* per block: the shared spike count
    shSpk,                        \* per block: the shared spike buffer
    shPosSpk,                     \* per block: the start of its range in the global buffer
    glbSpkCnt,                    \* dd_glbSpkCnt: per delay slot
    glbSpk,                       \* dd_glbSpk: per delay slot, per position
    nphase,                       \* per block: the barriers it has passed
    narrived,                     \* the threads that wait at their block's next barrier
    spiked                        \* history: the neurons whose threshold condition held

neuronVars == <<nng, shSpkCount, shSpk, shPosSpk, glbSpkCnt, glbSpk, nphase, narrived, spiked>>

\* Part 6: a Runtime and the library it loads
VARIABLES
    libraryExists,                \* input: whether dlopen finds the library
    libraryExports,               \* input: the symbols the library exports
    rtState,                      \* "none", "alive", "failed" (the constructor threw) or "destroyed"
    m_Library,                    \* Runtime::m_Library: "null" or "handle"
    m_Symbols,                    \* the function pointers the constructor has set
    m_Timestep,                   \* Runtime::m_Timestep
    allocated,                    \* whether allocate has run
    libraryLoads,                 \* history: the number of successful dlopen calls
    libraryCloses,                \* history: the number of dlclose calls
    freeMemCalls,                 \* history: the number of calls of the library's freeMem
    rtModel,                      \* the model the Runtime was constructed on (m_ModelMerged)
    arrays,                       \* the arrays the Runtime owns, in the order of their creation
    m_NumRecordingTimesteps,      \* Runtime::m_NumRecordingTimesteps (NoRecordingTimesteps: empty)
    allocateCalls,                \* history: the number of allocate calls
    lastNumRecordingTimesteps,    \* history: the argument of the last allocate call
    lastError,                    \* history: what the last allocate call threw ("none": nothing)
    arraysBefore,                 \* history: the arrays owned when the last allocate call began
    stepCalls,                    \* history: the arguments of the calls of the library's stepTime
    dtorLog                       \* history: what the destruction of the Runtime did, in order

runtimeVars == <<libraryExists, libraryExports, rtState, m_Library, m_Symbols, m_Timestep,
                 allocated, libraryLoads, libraryCloses, freeMemCalls, rtModel, arrays,
                 m_NumRecordingTimesteps, allocateCalls, lastNumRecordingTimesteps, lastError,
                 arraysBefore, stepCalls, dtorLog>>

\* Part 7: a ModelSpec with two neuron groups and at most one synapse group between them
VARIABLES
    m_DT,                         \* ModelSpec::m_DT
    m_BatchSize,                  \* ModelSpec::m_BatchSize
    m_LocalSynapseGroups,         \* ModelSpec::m_LocalSynapseGroups: the synapse groups constructed
    m_SpikeLocation,              \* the location of the spikes of the source neuron group
    m_CurrentSourceVarLocation,   \* the location of the variable of a current source
    m_CustomUpdateVarLocation,    \* the location of the variable of a custom update
    m_VarQueueRequired,           \* per neuron group, the variables marked as requiring a queue
    finaliseCalls,                \* history: the number of finalise calls
    lastCallError,                \* history: what the last call threw ("none": nothing)
    lastConstructorArgs           \* history: the arguments of the last SynapseGroup construction

modelVars == <<m_DT, m_BatchSize, m_LocalSynapseGroups, m_SpikeLocation,
               m_CurrentSourceVarLocation, m_CustomUpdateVarLocation, m_VarQueueRequired,
               finaliseCalls, lastCallError, lastConstructorArgs>>

\* Part 8: the neuron update code generated for one merged neuron-update group, and one
\* neuron running it
VARIABLES
    nuArchetype,                  \* getArchetype() and the merged child groups of the group
    nuCode,                       \* the code emitted by generateNeuronUpdate, in order
    nuPc,                         \* the statement of nuCode the neuron executes next (0: none)
    nuSteps,                      \* the number of neuron updates started
    lV,                           \* the neuron's state variable (its local copy)
    oldSpike,                     \* const bool oldSpike
    seT,                          \* the spike-event times, per delay slot
    prevSET,                      \* the previous spike-event times, per delay slot
    executed,                     \* history: the statements executed in this update
    VBeforeSim,                   \* history: lV before the sim code of this update
    VAfterSim,                    \* history: lV after the sim code of this update
    trueSpikes,                   \* history: emitTrueSpike calls in this update
    resetRuns,                    \* history: runs of the reset code in this update
    eventCondition                \* history: the event conditions evaluated in this update

codeVars == <<nuArchetype, nuCode, nuPc, nuSteps, lV, oldSpike, seT, prevSET, executed,
              VBeforeSim, VAfterSim, trueSpikes, resetRuns, eventCondition>>

\* Part 9: the index arithmetic of the generated kernels and of the array sizes
VARIABLES
    simtOp,                       \* which piece of generated code runs, or has run
    gp,                           \* the sizes of the bitmask array gp
    kernelSizes,                  \* g.getKernelSize(i), per kernel dimension
    kernelIDs,                    \* per thread, in the order of the ids: its kernelID0.. or <<>>
    startIDs,                     \* d_merged<T>GroupStartID<index>
    mergedRange,                  \* <<idStart, idStart + paddedSize>> of the merged group
    threadId,                     \* id
    lo,                           \* unsigned int lo
    hi,                           \* unsigned int hi
    groupLid,                     \* <<index of the merged struct used, lid>>, or <<>>
    sparseGroup,                  \* group->numSrcNeurons, group->rowStride and the block size
    rBlock,                       \* unsigned int r of the loop through blocks
    iRow,                         \* unsigned int i of the loop through rows
    idx,                          \* unsigned int idx
    visited                       \* history: <<row, idx>> of every row the loops went through

simtVars == <<simtOp, gp, kernelSizes, kernelIDs, startIDs, mergedRange, threadId, lo, hi,
              groupLid, sparseGroup, rBlock, iRow, idx, visited>>

vars == <<stepVars, irVars, fuseVars, presynVars, neuronVars, runtimeVars, modelVars, codeVars, simtVars>>

\* The variables each part leaves alone
notStep == <<irVars, fuseVars, presynVars, neuronVars, runtimeVars, modelVars, codeVars, simtVars>>
notIR == <<stepVars, fuseVars, presynVars, neuronVars, runtimeVars, modelVars, codeVars, simtVars>>
notFuse == <<stepVars, irVars, presynVars, neuronVars, runtimeVars, modelVars, codeVars, simtVars>>
notPresyn == <<stepVars, irVars, fuseVars, neuronVars, runtimeVars, modelVars, codeVars, simtVars>>
notNeuron == <<stepVars, irVars, fuseVars, presynVars, runtimeVars, modelVars, codeVars, simtVars>>
notRuntime == <<stepVars, irVars, fuseVars, presynVars, neuronVars, modelVars, codeVars, simtVars>>
notModel == <<stepVars, irVars, fuseVars, presynVars, neuronVars, runtimeVars, codeVars, simtVars>>
notCode == <<stepVars, irVars, fuseVars, presynVars, neuronVars, runtimeVars, modelVars, simtVars>>
notSIMT == <<stepVars, irVars, fuseVars, presynVars, neuronVars, runtimeVars, modelVars, codeVars>>

\* The values a part's variables keep while another part runs
IdleStep ==
    /\ mode = "idle" /\ numDelaySlots = 1 /\ delaySteps = 0 /\ dendriticDelayRequired = FALSE
    /\ maxDendriticDelayTimesteps = 1 /\ stPos = 0 /\ stepLog = <<>> /\ iT = 0
    /\ spkQuePtr = 0 /\ denDelayPtr = 0 /\ spkQueue = <<>> /\ lastRead = <<-1, -1>>
    /\ readSlot = <<-1, -1, -1>> /\ writeSlot = <<-1, -1>>
    /\ emitted = {}

IdleIR == ngNumDelaySlots = <<>> /\ synapseGroups = <<>>

IdleFuse ==
    /\ sgPS = <<>> /\ sgWU = <<>> /\ shouldFusePostsynapticModels = FALSE
    /\ hashCall = <<>> /\ fusedPSTarget = "unset"

IdlePresyn ==
    /\ ksg = <<>> /\ inSyn = <<>> /\ denDelay = <<>> /\ shLg = <<>> /\ linSyn = <<>>
    /\ tpc = <<>> /\ tj = <<>> /\ contributed = <<>>

IdleNeuron ==
    /\ nng = <<>> /\ shSpkCount = <<>> /\ shSpk = <<>> /\ shPosSpk = <<>> /\ glbSpkCnt = <<>>
    /\ glbSpk = <<>> /\ nphase = <<>> /\ narrived = {} /\ spiked = {}

\* An empty std::optional<size_t>
NoRecordingTimesteps == -1

\* A model without groups: the value of rtModel while no Runtime exists
NoRuntimeModel == [dt |-> 1, batchSize |-> 1, neuronGroups |-> <<>>, synapseGroups |-> <<>>]

IdleRuntime ==
    /\ libraryExists = FALSE /\ libraryExports = {} /\ rtState = "none" /\ m_Library = "null"
    /\ m_Symbols = {} /\ m_Timestep = 0 /\ allocated = FALSE
    /\ libraryLoads = 0 /\ libraryCloses = 0 /\ freeMemCalls = 0
    /\ rtModel = NoRuntimeModel /\ arrays = <<>>
    /\ m_NumRecordingTimesteps = NoRecordingTimesteps /\ allocateCalls = 0
    /\ lastNumRecordingTimesteps = NoRecordingTimesteps /\ lastError = "none"
    /\ arraysBefore = <<>> /\ stepCalls = <<>> /\ dtorLog = <<>>

\* VarLocation values: the flags that are set
HOST_DEVICE == {"HOST", "DEVICE"}
HOST_DEVICE_ZERO_COPY == {"HOST", "DEVICE", "ZERO_COPY"}

IdleModel ==
    /\ m_DT = 1 /\ m_BatchSize = 1 /\ m_LocalSynapseGroups = <<>>
    /\ m_SpikeLocation = HOST_DEVICE
    /\ m_CurrentSourceVarLocation = HOST_DEVICE /\ m_CustomUpdateVarLocation = HOST_DEVICE
    /\ m_VarQueueRequired = [pre |-> {}, post |-> {}]
    /\ finaliseCalls = 0 /\ lastCallError = "none" /\ lastConstructorArgs = <<>>

IdleSIMT ==
    /\ simtOp = "idle" /\ gp = <<>> /\ kernelSizes = <<>> /\ kernelIDs = <<>>
    /\ startIDs = <<>> /\ mergedRange = <<0, 0>> /\ threadId = 0 /\ lo = 0 /\ hi = 0
    /\ groupLid = <<>> /\ sparseGroup = <<>> /\ rBlock = 0 /\ iRow = 0
    /\ idx = 0 /\ visited = <<>>

\* The spike-event times before any neuron update ran: the two delay slots hold different
\* times
InitialSET == [read |-> 2, write |-> 0]
InitialPrevSET == [read |-> 1, write |-> 0]

IdleCode ==
    /\ nuArchetype = <<>> /\ nuCode = <<>> /\ nuPc = 0 /\ nuSteps = 0 /\ lV = 0
    /\ oldSpike = FALSE /\ seT = InitialSET /\ prevSET = InitialPrevSET /\ executed = <<>>
    /\ VBeforeSim = 0 /\ VAfterSim = 0 /\ trueSpikes = 0 /\ resetRuns = 0
    /\ eventCondition = <<>>

\* The body of the generated stepTime, statement by statement
StepTimeBody_NeuronsFirst ==
    <<"advanceSpkQuePtr", "updateNeurons", "updateSynapses", "advanceDenDelayPtr", "advanceTime">>

StepTimeBody ==
    <<"updateSynapses", "advanceSpkQuePtr", "updateNeurons", "advanceDenDelayPtr", "advanceTime">>

\* The statement stepTime executes next
NextStatement == IF mode = "run" /\ stPos < Len(StepTimeBody) THEN StepTimeBody[stPos + 1] ELSE "none"

\* A statement of stepTime can run when it is the next one of a call within the bound
CanExecute(name) == NextStatement = name /\ iT < MaxSteps

\* The log of the current call after the statement ran (a new call starts a new log)
Logged(name) == IF stPos = 0 THEN <<name>> ELSE Append(stepLog, name)

\* spkQuePtr = (spkQuePtr + 1) % numDelaySlots
NextQueuePtr_NoWrap(ptr, slots) == ptr + 1

NextQueuePtr(ptr, slots) == (ptr + 1) % slots

\* delaySlot = (spkQuePtr + (numDelaySlots - delaySteps)) % numDelaySlots
DelaySlot_NoDelay(ptr, slots, delay) == ptr % slots

DelaySlot(ptr, slots, delay) == (ptr + (slots - delay)) % slots

\* SynapseGroup's constructor leaves m_MaxDendriticDelayTimesteps at 1; the source neuron
\* group has at least delaySteps + 1 slots (checkNumDelaySlots)
InitStep ==
    /\ mode = "build"
    /\ numDelaySlots \in 2..MaxDelaySlots
    /\ delaySteps \in 1..(MaxDelaySlots - 1)
    /\ delaySteps < numDelaySlots
    /\ dendriticDelayRequired \in BOOLEAN
    /\ maxDendriticDelayTimesteps = 1
    /\ stPos = 0
    /\ stepLog = <<>>
    /\ iT = 0
    /\ spkQuePtr = 0
    /\ denDelayPtr = 0
    /\ spkQueue = [s \in 0..(numDelaySlots - 1) |-> -1]
    /\ lastRead = <<-1, -1>>
    /\ readSlot = <<-1, -1, -1>> /\ writeSlot = <<-1, -1>>
    /\ emitted = {}
    /\ IdleIR /\ IdleFuse /\ IdlePresyn /\ IdleNeuron /\ IdleRuntime /\ IdleModel /\ IdleCode /\ IdleSIMT

\* SynapseGroup::setMaxDendriticDelayTimesteps: stores the value, no constraint
setMaxDendriticDelayTimesteps(m) ==
    /\ mode = "build"
    /\ maxDendriticDelayTimesteps' = m
    /\ UNCHANGED <<mode, numDelaySlots, delaySteps, dendriticDelayRequired, stPos, stepLog,
                   iT, spkQuePtr, denDelayPtr, spkQueue, lastRead, emitted,
                   readSlot, writeSlot>>
    /\ UNCHANGED notStep

\* Code generation: from here on the generated code holds the model's values as literals
Generate ==
    /\ mode = "build"
    /\ mode' = "run"
    /\ UNCHANGED <<numDelaySlots, delaySteps, dendriticDelayRequired, maxDendriticDelayTimesteps,
                   stPos, stepLog, iT, spkQuePtr, denDelayPtr, spkQueue, lastRead, emitted,
                   readSlot, writeSlot>>
    /\ UNCHANGED notStep

\* updateSynapses(t): the presynaptic update kernel reads the spikes of slot delaySlot
UpdateSynapses ==
    /\ CanExecute("updateSynapses")
    /\ lastRead' = <<iT, spkQueue[DelaySlot(spkQuePtr, numDelaySlots, delaySteps)]>>
    /\ readSlot' = <<iT, DelaySlot(spkQuePtr, numDelaySlots, delaySteps), spkQuePtr>>
    /\ stPos' = stPos + 1
    /\ stepLog' = Logged("updateSynapses")
    /\ UNCHANGED <<mode, numDelaySlots, delaySteps, dendriticDelayRequired,
                   maxDendriticDelayTimesteps, iT, spkQuePtr, denDelayPtr, spkQueue, emitted,
                   writeSlot>>
    /\ UNCHANGED notStep

\* The spike queue update: the pointer advances and the new slot's spike count is zeroed
AdvanceSpkQuePtr ==
    /\ CanExecute("advanceSpkQuePtr")
    /\ spkQuePtr' = NextQueuePtr(spkQuePtr, numDelaySlots)
    /\ spkQueue' = [s \in DOMAIN spkQueue |-> IF s = spkQuePtr' THEN -1 ELSE spkQueue[s]]
    /\ stPos' = stPos + 1
    /\ stepLog' = Logged("advanceSpkQuePtr")
    /\ UNCHANGED <<mode, numDelaySlots, delaySteps, dendriticDelayRequired,
                   maxDendriticDelayTimesteps, iT, denDelayPtr, lastRead, emitted,
                   readSlot, writeSlot>>
    /\ UNCHANGED notStep

\* updateNeurons(t): the neuron update kernel writes this step's spikes to slot spkQuePtr
UpdateNeurons ==
    /\ CanExecute("updateNeurons")
    /\ \E spike \in BOOLEAN :
        /\ spike => Cardinality(emitted) < MaxSpikes
        /\ spkQueue' = IF spike /\ spkQuePtr \in DOMAIN spkQueue
                       THEN [spkQueue EXCEPT ![spkQuePtr] = iT] ELSE spkQueue
        /\ emitted' = IF spike THEN emitted \cup {iT} ELSE emitted
    /\ writeSlot' = <<iT, spkQuePtr>>
    /\ stPos' = stPos + 1
    /\ stepLog' = Logged("updateNeurons")
    /\ UNCHANGED <<mode, numDelaySlots, delaySteps, dendriticDelayRequired,
                   maxDendriticDelayTimesteps, iT, spkQuePtr, denDelayPtr, lastRead,
                   readSlot>>
    /\ UNCHANGED notStep

\* denDelayPtr = (denDelayPtr + 1) % maxDendriticDelayTimesteps, for a synapse group that
\* requires dendritic delay.  A modulus of 0 is undefined: any value may result.
AdvanceDenDelayPtr ==
    /\ CanExecute("advanceDenDelayPtr")
    /\ IF ~dendriticDelayRequired
       THEN denDelayPtr' = denDelayPtr
       ELSE IF maxDendriticDelayTimesteps = 0
            THEN denDelayPtr' \in 0..MaxDendriticDelay
            ELSE denDelayPtr' = (denDelayPtr + 1) % maxDendriticDelayTimesteps
    /\ stPos' = stPos + 1
    /\ stepLog' = Logged("advanceDenDelayPtr")
    /\ UNCHANGED <<mode, numDelaySlots, delaySteps, dendriticDelayRequired,
                   maxDendriticDelayTimesteps, iT, spkQuePtr, spkQueue, lastRead, emitted,
                   readSlot, writeSlot>>
    /\ UNCHANGED notStep

\* iT++; t = iT*DT: the call returns
AdvanceTime ==
    /\ CanExecute("advanceTime")
    /\ iT' = iT + 1
    /\ stPos' = 0
    /\ stepLog' = Logged("advanceTime")
    /\ UNCHANGED <<mode, numDelaySlots, delaySteps, dendriticDelayRequired,
                   maxDendriticDelayTimesteps, spkQuePtr, denDelayPtr, spkQueue, lastRead, emitted,
                   readSlot, writeSlot>>
    /\ UNCHANGED notStep

NextStep ==
    \/ \E m \in 0..MaxDendriticDelay : setMaxDendriticDelayTimesteps(m)
    \/ Generate
    \/ UpdateSynapses
    \/ AdvanceSpkQuePtr
    \/ UpdateNeurons
    \/ AdvanceDenDelayPtr
    \/ AdvanceTime

SpecStep == InitStep /\ [][NextStep]_vars

(***************************************************************************)
(* Properties of stepTime and of the delay rings                           *)
(***************************************************************************)

C3_QueuePtr ==
    /\ spkQuePtr \in 0..(numDelaySlots - 1)
    /\ stPos = 0 => spkQuePtr = iT % numDelaySlots
    /\ stPos > 0 => spkQuePtr \in {iT % numDelaySlots, (iT + 1) % numDelaySlots}

C3_Witness == mode = "run" /\ stPos = 0 /\ iT = 10 /\ numDelaySlots = 4 /\ spkQuePtr = 2

\* C5 as stated: a synapse group that requires dendritic delay has
\* maxDendriticDelayTimesteps >= 1 after any calls of its setter, and its denDelayPtr
\* stays in [0, maxDendriticDelayTimesteps)
C5_Original ==
    dendriticDelayRequired =>
        /\ maxDendriticDelayTimesteps >= 1
        /\ denDelayPtr \in 0..(maxDendriticDelayTimesteps - 1)

NeuronGroups == {"Pre", "Post"}

\* A neuron group is created with a single delay slot
InitialNumDelaySlots == 1

\* NeuronGroup::checkNumDelaySlots: a delay of requiredDelay steps consumes requiredDelay + 1 slots
checkNumDelaySlots(slots, requiredDelay) ==
    IF requiredDelay >= slots THEN requiredDelay + 1 ELSE slots

InitIR ==
    /\ ngNumDelaySlots = [n \in NeuronGroups |-> InitialNumDelaySlots]
    /\ synapseGroups = <<>>
    /\ IdleStep /\ IdleFuse /\ IdlePresyn /\ IdleNeuron /\ IdleRuntime /\ IdleModel /\ IdleCode /\ IdleSIMT

\* SynapseGroup::SynapseGroup: m_BackPropDelaySteps(0), then
\* srcNeuronGroup->checkNumDelaySlots(delaySteps)
SynapseGroup(src, trg, delay) ==
    /\ Len(synapseGroups) < MaxSynapseGroups
    /\ synapseGroups' = Append(synapseGroups,
            [src |-> src, trg |-> trg, delaySteps |-> delay, backPropDelaySteps |-> 0])
    /\ ngNumDelaySlots' = [ngNumDelaySlots EXCEPT ![src] = checkNumDelaySlots(@, delay)]
    /\ UNCHANGED notIR

\* SynapseGroup::setBackPropDelaySteps without the call of checkNumDelaySlots
setBackPropDelaySteps_NoCheck(i, timesteps) ==
    /\ i \in DOMAIN synapseGroups
    /\ synapseGroups' = [synapseGroups EXCEPT ![i].backPropDelaySteps = timesteps]
    /\ UNCHANGED ngNumDelaySlots
    /\ UNCHANGED notIR

\* SynapseGroup::setBackPropDelaySteps: m_BackPropDelaySteps = timesteps, then
\* m_TrgNeuronGroup->checkNumDelaySlots(m_BackPropDelaySteps)
setBackPropDelaySteps(i, timesteps) ==
    /\ i \in DOMAIN synapseGroups
    /\ synapseGroups' = [synapseGroups EXCEPT ![i].backPropDelaySteps = timesteps]
    /\ ngNumDelaySlots' = [ngNumDelaySlots EXCEPT
            ![synapseGroups[i].trg] = checkNumDelaySlots(@, timesteps)]
    /\ UNCHANGED notIR

NextIR ==
    \/ \E src, trg \in NeuronGroups, delay \in 0..MaxDelaySteps : SynapseGroup(src, trg, delay)
    \/ \E i \in 1..MaxSynapseGroups, timesteps \in 0..MaxDelaySteps : setBackPropDelaySteps(i, timesteps)

SpecIR == InitIR /\ [][NextIR]_vars

\* C4: after any sequence of synapse group constructions and setBackPropDelaySteps calls,
\* every neuron group has numDelaySlots >= 1 + the largest of the axonal delays of its
\* outgoing synapse groups and the back-propagation delays of its incoming synapse groups
C4_NumDelaySlots ==
    \A n \in DOMAIN ngNumDelaySlots :
        /\ ngNumDelaySlots[n] >= 1
        /\ \A i \in DOMAIN synapseGroups :
            /\ synapseGroups[i].src = n => ngNumDelaySlots[n] >= 1 + synapseGroups[i].delaySteps
            /\ synapseGroups[i].trg = n => ngNumDelaySlots[n] >= 1 + synapseGroups[i].backPropDelaySteps

C4_Witness ==
    /\ Len(synapseGroups) = 2
    /\ synapseGroups[1].src = "Pre" /\ synapseGroups[1].delaySteps = 1
    /\ synapseGroups[2].trg = "Pre" /\ synapseGroups[2].backPropDelaySteps = 2
    /\ ngNumDelaySlots["Pre"] = 3

(***************************************************************************)
(* Part 3: fuse digests.  A digest is modelled by the sequence of values   *)
(* fed to the hash, so two digests are equal exactly when the same values  *)
(* were hashed in the same order.                                          *)
(***************************************************************************)
ParamValues == 1..MaxParamValue

\* The postsynaptic models of the model: what their code fragments reference
PSModelNames == {"ExpCurr", "ScaledExpCurr", "EGPCurr"}
PSParamNames == {"tau", "scale"}
PSDerivedParamNames == {"expDecay", "init"}
PSVarNames == {"x"}
PSDecayCodeTokens(model) ==
    IF model = "EGPCurr" THEN {"inSyn", "expDecay", "g"} ELSE {"inSyn", "expDecay"}
PSApplyInputCodeTokens(model) ==
    IF model = "ScaledExpCurr" THEN {"Isyn", "inSyn", "scale", "init"} ELSE {"Isyn", "inSyn"}
PSExtraGlobalParams(model) == IF model = "EGPCurr" THEN {"g"} ELSE {}

\* The weight update models of the model
WUModelNames == {"STDP", "StaticPulse"}
WUParamNames == <<"p", "q">>
WUDerivedParamNames == <<"pDecay">>
WUPreSpikeCodeTokens(model) == IF model = "STDP" THEN {"preTrace", "p"} ELSE {}
WUPreDynamicsCodeTokens(model) == IF model = "STDP" THEN {"preTrace", "pDecay"} ELSE {}
WUPostSpikeCodeTokens(model) == IF model = "STDP" THEN {"postTrace", "q"} ELSE {}
WUPostDynamicsCodeTokens(model) == IF model = "STDP" THEN {"postTrace"} ELSE {}

\* Utils::isIdentifierReferenced
isIdentifierReferenced(name, tokens) == name \in tokens

\* SynapseGroup::finalise: each derived parameter is its snippet's function of the parameters
PSDerivedParams(params) == [d \in PSDerivedParamNames |->
                                IF d = "expDecay" THEN 10 - params["tau"] ELSE 2 * params["scale"]]
WUDerivedParams(params) == [d \in {"pDecay"} |-> 10 - params["p"]]

\* Variable initialisers: the Constant snippet with its one parameter, or another snippet
VarInitialisers == {[snippet |-> "Constant", constant |-> c] : c \in 0..1} \cup
                   {[snippet |-> "Uniform", constant |-> 0]}

\* The postsynaptic and weight update sides of a finalised synapse group
PSGroups ==
    {[model |-> mo, params |-> pa, derivedParams |-> PSDerivedParams(pa), varInitialisers |-> vi,
      maxDendriticDelayTimesteps |-> md, targetVar |-> tv, neuronVarReferences |-> <<"V">>] :
        mo \in PSModelNames, pa \in [PSParamNames -> ParamValues],
        vi \in [PSVarNames -> VarInitialisers], md \in 1..2, tv \in {"Isyn"}}

WUGroups ==
    {[model |-> mo, params |-> pa, derivedParams |-> WUDerivedParams(pa), delaySteps |-> ds,
      backPropDelaySteps |-> bp, preVarInit |-> pre, postVarInit |-> post] :
        mo \in WUModelNames, pa \in [{"p", "q"} -> ParamValues], ds \in 0..1, bp \in 0..1,
        pre \in 0..1, post \in {0}}

DefaultPS == CHOOSE g \in PSGroups : g.model = "ExpCurr"
DefaultWU == CHOOSE g \in WUGroups : g.model = "StaticPulse"

\* What a digest function yields when an initialiser has no "constant" parameter
DigestThrows == <<"out_of_range">>

\* SynapseGroup::canPSBeFused with the test of the initialisers inverted
canPSBeFused_Inverted(sg) ==
    /\ ~\E v \in DOMAIN sg.varInitialisers : sg.varInitialisers[v].snippet = "Constant"
    /\ ~\E egp \in PSExtraGlobalParams(sg.model) :
            \/ isIdentifierReferenced(egp, PSDecayCodeTokens(sg.model))
            \/ isIdentifierReferenced(egp, PSApplyInputCodeTokens(sg.model))

\* SynapseGroup::canPSBeFused: every initialiser is the Constant snippet and no extra global
\* parameter is referenced in the decay or the apply-input code
canPSBeFused(sg) ==
    /\ ~\E v \in DOMAIN sg.varInitialisers : sg.varInitialisers[v].snippet # "Constant"
    /\ ~\E egp \in PSExtraGlobalParams(sg.model) :
            \/ isIdentifierReferenced(egp, PSDecayCodeTokens(sg.model))
            \/ isIdentifierReferenced(egp, PSApplyInputCodeTokens(sg.model))

\* SynapseGroup::getPSFuseHashDigest: the model's digest, the dendritic delay, the target
\* variable, ALL parameters and derived parameters, the initialisers' constants and the
\* names of the referenced neuron variables
getPSFuseHashDigest(sg) ==
    IF \E v \in DOMAIN sg.varInitialisers : sg.varInitialisers[v].snippet # "Constant"
    THEN DigestThrows
    ELSE <<sg.model, sg.maxDendriticDelayTimesteps, sg.targetVar, sg.params, sg.derivedParams,
           [v \in DOMAIN sg.varInitialisers |-> sg.varInitialisers[v].constant],
           sg.neuronVarReferences>>

\* The values of the names of a sequence that a pair of code fragments references
ReferencedValues(names, values, tokens1, tokens2) ==
    LET ref == SelectSeq(names, LAMBDA n : \/ isIdentifierReferenced(n, tokens1)
                                           \/ isIdentifierReferenced(n, tokens2))
    IN  [i \in 1..Len(ref) |-> values[ref[i]]]

\* SynapseGroup::getWUPreFuseHashDigest: the model's presynaptic digest, the axonal delay,
\* the presynaptic initialisers' constants and the parameters and derived parameters
\* referenced in the presynaptic spike or dynamics code
getWUPreFuseHashDigest(sg) ==
    <<<<sg.model, "pre">>, sg.delaySteps, sg.preVarInit,
      ReferencedValues(WUParamNames, sg.params,
                       WUPreSpikeCodeTokens(sg.model), WUPreDynamicsCodeTokens(sg.model)),
      ReferencedValues(WUDerivedParamNames, sg.derivedParams,
                       WUPreSpikeCodeTokens(sg.model), WUPreDynamicsCodeTokens(sg.model))>>

\* SynapseGroup::getWUPostFuseHashDigest: likewise with the back-propagation delay and the
\* postsynaptic spike and dynamics code
getWUPostFuseHashDigest(sg) ==
    <<<<sg.model, "post">>, sg.backPropDelaySteps, sg.postVarInit,
      ReferencedValues(WUParamNames, sg.params,
                       WUPostSpikeCodeTokens(sg.model), WUPostDynamicsCodeTokens(sg.model)),
      ReferencedValues(WUDerivedParamNames, sg.derivedParams,
                       WUPostSpikeCodeTokens(sg.model), WUPostDynamicsCodeTokens(sg.model))>>

\* Two finalised synapse groups with one target: either their postsynaptic sides or their
\* weight update sides are arbitrary
InitFuse ==
    /\ \/ sgPS \in [{"A", "B"} -> PSGroups] /\ sgWU = [g \in {"A", "B"} |-> DefaultWU]
       \/ sgWU \in [{"A", "B"} -> WUGroups] /\ sgPS = [g \in {"A", "B"} |-> DefaultPS]
    /\ shouldFusePostsynapticModels = FALSE
    /\ hashCall = <<>>
    /\ fusedPSTarget = "unset"
    /\ IdleStep /\ IdleIR /\ IdlePresyn /\ IdleNeuron /\ IdleRuntime /\ IdleModel /\ IdleCode /\ IdleSIMT

\* ModelSpec::setFusePostsynapticModels
setFusePostsynapticModels(fuse) ==
    /\ fusedPSTarget = "unset"
    /\ shouldFusePostsynapticModels' = fuse
    /\ UNCHANGED <<sgPS, sgWU, hashCall, fusedPSTarget>>
    /\ UNCHANGED notFuse

\* The three digests computed for A and for B
HashPS ==
    /\ hashCall' = [fn |-> "getPSFuseHashDigest",
                    a |-> getPSFuseHashDigest(sgPS["A"]), b |-> getPSFuseHashDigest(sgPS["B"])]
    /\ UNCHANGED <<sgPS, sgWU, shouldFusePostsynapticModels, fusedPSTarget>>
    /\ UNCHANGED notFuse

HashWUPre ==
    /\ hashCall' = [fn |-> "getWUPreFuseHashDigest",
                    a |-> getWUPreFuseHashDigest(sgWU["A"]), b |-> getWUPreFuseHashDigest(sgWU["B"])]
    /\ UNCHANGED <<sgPS, sgWU, shouldFusePostsynapticModels, fusedPSTarget>>
    /\ UNCHANGED notFuse

HashWUPost ==
    /\ hashCall' = [fn |-> "getWUPostFuseHashDigest",
                    a |-> getWUPostFuseHashDigest(sgWU["A"]), b |-> getWUPostFuseHashDigest(sgWU["B"])]
    /\ UNCHANGED <<sgPS, sgWU, shouldFusePostsynapticModels, fusedPSTarget>>
    /\ UNCHANGED notFuse

\* The fuse pass over the incoming synapse groups of the target: when fusing is enabled, B's
\* postsynaptic model is fused with that of A, the archetype, when both can be fused and
\* their fuse digests are equal
fusePrePostSynapses ==
    /\ fusedPSTarget = "unset"
    /\ fusedPSTarget' =
        IF /\ shouldFusePostsynapticModels
           /\ canPSBeFused(sgPS["A"]) /\ canPSBeFused(sgPS["B"])
           /\ getPSFuseHashDigest(sgPS["A"]) = getPSFuseHashDigest(sgPS["B"])
        THEN "A" ELSE "none"
    /\ UNCHANGED <<sgPS, sgWU, shouldFusePostsynapticModels, hashCall>>
    /\ UNCHANGED notFuse

NextFuse ==
    \/ \E fuse \in BOOLEAN : setFusePostsynapticModels(fuse)
    \/ HashPS
    \/ HashWUPre
    \/ HashWUPost
    \/ fusePrePostSynapses

SpecFuse == InitFuse /\ [][NextFuse]_vars

\* Two groups' postsynaptic sides are identical except for the values of parameters and
\* derived parameters that neither the decay nor the apply-input code references
PSDifferOnlyInUnreferenced(a, b) ==
    /\ a # b
    /\ [a EXCEPT !.params = b.params, !.derivedParams = b.derivedParams] = b
    /\ \A n \in PSParamNames : a.params[n] # b.params[n] =>
            /\ ~isIdentifierReferenced(n, PSDecayCodeTokens(a.model))
            /\ ~isIdentifierReferenced(n, PSApplyInputCodeTokens(a.model))
    /\ \A n \in PSDerivedParamNames : a.derivedParams[n] # b.derivedParams[n] =>
            /\ ~isIdentifierReferenced(n, PSDecayCodeTokens(a.model))
            /\ ~isIdentifierReferenced(n, PSApplyInputCodeTokens(a.model))

\* The same for the weight update sides and a pair of its code fragments
WUDifferOnlyInUnreferenced(a, b, tokens1, tokens2) ==
    /\ a # b
    /\ [a EXCEPT !.params = b.params, !.derivedParams = b.derivedParams] = b
    /\ \A n \in DOMAIN a.params : a.params[n] # b.params[n] =>
            ~isIdentifierReferenced(n, tokens1) /\ ~isIdentifierReferenced(n, tokens2)
    /\ \A n \in DOMAIN a.derivedParams : a.derivedParams[n] # b.derivedParams[n] =>
            ~isIdentifierReferenced(n, tokens1) /\ ~isIdentifierReferenced(n, tokens2)

\* C6 as stated: for each of the three fuse digests, two synapse groups that are identical
\* except for the value of a parameter or derived parameter that the code relevant to the
\* digest does not reference have equal digests
C6_Original ==
    /\ (hashCall # <<>> /\ hashCall.fn = "getPSFuseHashDigest"
            /\ PSDifferOnlyInUnreferenced(sgPS["A"], sgPS["B"]))
        => hashCall.a = hashCall.b
    /\ (hashCall # <<>> /\ hashCall.fn = "getWUPreFuseHashDigest"
            /\ WUDifferOnlyInUnreferenced(sgWU["A"], sgWU["B"],
                    WUPreSpikeCodeTokens(sgWU["A"].model), WUPreDynamicsCodeTokens(sgWU["A"].model)))
        => hashCall.a = hashCall.b
    /\ (hashCall # <<>> /\ hashCall.fn = "getWUPostFuseHashDigest"
            /\ WUDifferOnlyInUnreferenced(sgWU["A"], sgWU["B"],
                    WUPostSpikeCodeTokens(sgWU["A"].model), WUPostDynamicsCodeTokens(sgWU["A"].model)))
        => hashCall.a = hashCall.b

\* Every initialiser of the postsynaptic side is a constant and none of its extra global
\* parameters is referenced in the decay or the apply-input code
PSFusable(sg) ==
    /\ \A v \in DOMAIN sg.varInitialisers : sg.varInitialisers[v].snippet = "Constant"
    /\ PSExtraGlobalParams(sg.model) \cap
            (PSDecayCodeTokens(sg.model) \cup PSApplyInputCodeTokens(sg.model)) = {}

\* The digests of two groups exist and are equal
EqualDigests(a, b) == a # DigestThrows /\ b # DigestThrows /\ a = b

\* C7 (as the code has it): for A and B with one target, once the fuse pass has run: when
\* fusing of postsynaptic models is enabled and both groups can be fused (constant
\* initialisers, no extra global parameter referenced in decay or apply-input code), their
\* postsynaptic models are fused if and only if their PS fuse digests are equal; otherwise
\* they are not fused
C7_FusedIffDigestAndFusable ==
    fusedPSTarget # "unset" =>
        IF shouldFusePostsynapticModels /\ PSFusable(sgPS["A"]) /\ PSFusable(sgPS["B"])
        THEN fusedPSTarget = "A" <=>
                EqualDigests(getPSFuseHashDigest(sgPS["A"]), getPSFuseHashDigest(sgPS["B"]))
        ELSE fusedPSTarget = "none"

C7_Witness ==
    /\ fusedPSTarget = "A"
    /\ sgPS["A"].model = "ScaledExpCurr"
    /\ hashCall # <<>> /\ hashCall.fn = "getPSFuseHashDigest" /\ hashCall.a = hashCall.b

\* C7 as stated, for a fuse pass with fusing enabled: the postsynaptic models of A and B are
\* fused if and only if their PS fuse digests are equal
C7_Original ==
    (fusedPSTarget # "unset" /\ shouldFusePostsynapticModels) =>
        (fusedPSTarget = "A" <=>
            EqualDigests(getPSFuseHashDigest(sgPS["A"]), getPSFuseHashDigest(sgPS["B"])))

(***************************************************************************)
(* Part 4: the presynaptic update kernel (calcSynapses) for one synapse    *)
(* group, thread by thread.  Every synapse contributes 1.  A thread is     *)
(* <<block, threadIdx>>; atomicAdd is one step; a register or shared       *)
(* accumulator is loaded in one step and written back in another.  Only    *)
(* the true-spike pass is modelled, with at most one block of spikes, and  *)
(* of the barriers only those that guard shLg.                             *)
(***************************************************************************)
padSize(size, blockSize) == ((size + blockSize - 1) \div blockSize) * blockSize

\* CodeGenerator::shouldAccumulateInLinSyn
shouldAccumulateInLinSyn(sg) == sg.matrixType \in {"DENSE", "BITMASK"}

\* CodeGenerator::shouldAccumulateInSharedMemory
shouldAccumulateInSharedMemory(sg) ==
    IF sg.spanType = "PRESYNAPTIC" THEN FALSE
    ELSE sg.matrixType = "SPARSE" /\ sg.numTrg <= PresynapticUpdateBlockSize

\* CodeGenerator::getPresynapticUpdateKernelSize
getPresynapticUpdateKernelSize(sg) ==
    IF sg.matrixType = "SPARSE"
    THEN IF sg.spanType = "PRESYNAPTIC"
         THEN padSize(NumSrcNeurons, PresynapticUpdateBlockSize)
         ELSE padSize(sg.maxConnections, PresynapticUpdateBlockSize)
    ELSE padSize(sg.numTrg, PresynapticUpdateBlockSize)

\* The threads of the kernel and the threads of a block
Threads(sg) == (0..((getPresynapticUpdateKernelSize(sg) \div PresynapticUpdateBlockSize) - 1))
                    \X (0..(PresynapticUpdateBlockSize - 1))
Blocks(sg) == {t[1] : t \in Threads(sg)}
lid(t) == PresynapticUpdateBlockSize * t[1] + t[2]

\* The rows of the connectivity: the first k target neurons, for a k within the row length
RowsOf(numTrg, maxConnections) ==
    {[i \in 1..k |-> i - 1] : k \in 0..(IF numTrg < maxConnections THEN numTrg ELSE maxConnections)}

\* The synapse groups the kernel is generated for, with the connectivity and the spikes of
\* the source neurons it reads.  Only a SPARSE group has a span type and a max row length
\* of its own (setSpanType, setMaxConnections); the others keep POSTSYNAPTIC and numTrg.
KernelGroups ==
    {sg \in [matrixType : {"DENSE", "BITMASK", "SPARSE"}, spanType : {"POSTSYNAPTIC", "PRESYNAPTIC"},
             dendriticDelayRequired : BOOLEAN, numTrg : 2..MaxTrgNeurons,
             maxConnections : 1..MaxConnections,
             rows : [0..(NumSrcNeurons - 1) -> UNION {RowsOf(n, MaxConnections) : n \in 2..MaxTrgNeurons}],
             glbSpk : {<<0>>, <<1, 0>>}] :
        /\ sg.matrixType # "SPARSE" => sg.spanType = "POSTSYNAPTIC" /\ sg.maxConnections = sg.numTrg
        /\ \A src \in DOMAIN sg.rows :
                IF sg.matrixType = "DENSE" THEN Len(sg.rows[src]) = sg.numTrg
                ELSE sg.rows[src] \in RowsOf(sg.numTrg, sg.maxConnections)}

InitPresyn ==
    /\ ksg \in KernelGroups
    /\ inSyn = [i \in 0..(ksg.numTrg - 1) |-> i + 1]
    /\ denDelay = [i \in 0..(ksg.numTrg - 1) |-> 0]
    /\ shLg = [b \in Blocks(ksg) |-> [x \in 0..(PresynapticUpdateBlockSize - 1) |-> 0]]
    /\ linSyn = [t \in Threads(ksg) |-> 0]
    /\ tpc = [t \in Threads(ksg) |-> "load"]
    /\ tj = [t \in Threads(ksg) |-> 1]
    /\ contributed = [a \in {"inSyn", "denDelay"} |-> [i \in 0..(ksg.numTrg - 1) |-> 0]]
    /\ IdleStep /\ IdleIR /\ IdleFuse /\ IdleNeuron /\ IdleRuntime /\ IdleModel /\ IdleCode /\ IdleSIMT

\* A thread has reached a barrier (or passed it) when it is at none of the places before it
AllReached(t, before) == \A u \in DOMAIN tpc : u[1] = t[1] => tpc[u] \notin before

\* Before the spikes are processed: the register path copies dd_inSyn[lid] into linSyn, the
\* shared path copies dd_inSyn[threadIdx.x] into shLg[threadIdx.x]
Preload(t) ==
    /\ tpc[t] = "load"
    /\ IF shouldAccumulateInLinSyn(ksg)
       THEN /\ linSyn' = IF lid(t) < ksg.numTrg THEN [linSyn EXCEPT ![t] = inSyn[lid(t)]] ELSE linSyn
            /\ shLg' = shLg
            /\ tpc' = [tpc EXCEPT ![t] = "spikes"]
       ELSE IF shouldAccumulateInSharedMemory(ksg)
            THEN /\ shLg' = IF t[2] < ksg.numTrg
                            THEN [shLg EXCEPT ![t[1]][t[2]] = inSyn[t[2]]] ELSE shLg
                 /\ linSyn' = linSyn
                 /\ tpc' = [tpc EXCEPT ![t] = "syncLoaded"]
            ELSE /\ UNCHANGED <<shLg, linSyn>>
                 /\ tpc' = [tpc EXCEPT ![t] = "spikes"]
    /\ UNCHANGED <<ksg, inSyn, denDelay, tj, contributed>>
    /\ UNCHANGED notPresyn

\* __syncthreads() after shLg was filled
SyncLoaded(t) ==
    /\ tpc[t] = "syncLoaded"
    /\ AllReached(t, {"load"})
    /\ tpc' = [tpc EXCEPT ![t] = "spikes"]
    /\ UNCHANGED <<ksg, inSyn, denDelay, shLg, linSyn, tj, contributed>>
    /\ UNCHANGED notPresyn

\* Where a thread goes once it has processed its spikes
AfterSpikes == IF shouldAccumulateInLinSyn(ksg) THEN "store"
               ELSE IF shouldAccumulateInSharedMemory(ksg) THEN "syncStored" ELSE "done"

\* addToInSyn / addToInSynDelay for target neuron ipost, as the span's code substitutes it:
\* atomicAdd on dd_denDelay, on shLg or on dd_inSyn, or linSyn += in the owner's register
AddToInSyn(t, ipost, atomicOnly) ==
    IF ksg.dendriticDelayRequired
    THEN /\ denDelay' = [denDelay EXCEPT ![ipost] = @ + 1]
         /\ contributed' = [contributed EXCEPT !["denDelay"][ipost] = @ + 1]
         /\ UNCHANGED <<inSyn, shLg, linSyn>>
    ELSE /\ contributed' = [contributed EXCEPT !["inSyn"][ipost] = @ + 1]
         /\ denDelay' = denDelay
         /\ IF atomicOnly \/ ksg.matrixType = "SPARSE"
            THEN IF shouldAccumulateInSharedMemory(ksg)
                 THEN shLg' = [shLg EXCEPT ![t[1]][ipost] = @ + 1] /\ UNCHANGED <<inSyn, linSyn>>
                 ELSE inSyn' = [inSyn EXCEPT ![ipost] = @ + 1] /\ UNCHANGED <<shLg, linSyn>>
            ELSE linSyn' = [linSyn EXCEPT ![t] = @ + 1] /\ UNCHANGED <<inSyn, shLg>>

\* genPresynapticUpdateKernelPostSpan: the thread handles spike tj of the block of spikes;
\* it is the lid-th synapse of the spiking neuron's row (SPARSE) or target neuron lid
PostSpan(t) ==
    /\ tpc[t] = "spikes"
    /\ ksg.spanType = "POSTSYNAPTIC"
    /\ IF tj[t] > Len(ksg.glbSpk)
       THEN /\ tpc' = [tpc EXCEPT ![t] = AfterSpikes]
            /\ UNCHANGED <<inSyn, denDelay, shLg, linSyn, tj, contributed>>
       ELSE LET spk == ksg.glbSpk[tj[t]]
                row == ksg.rows[spk]
                active == /\ lid(t) < ksg.maxConnections
                          /\ lid(t) < Len(row)
                ipost == IF ksg.matrixType = "SPARSE" THEN row[lid(t) + 1] ELSE lid(t)
            IN  /\ IF active THEN AddToInSyn(t, ipost, FALSE)
                   ELSE UNCHANGED <<inSyn, denDelay, shLg, linSyn, contributed>>
                /\ tj' = [tj EXCEPT ![t] = @ + 1]
                /\ tpc' = tpc
    /\ ksg' = ksg
    /\ UNCHANGED notPresyn

\* genPresynapticUpdateKernelPreSpan: thread lid handles spike lid and walks the row of the
\* spiking neuron, one synapse (tj) at a time
PreSpan(t) ==
    /\ tpc[t] = "spikes"
    /\ ksg.spanType = "PRESYNAPTIC"
    /\ IF lid(t) >= Len(ksg.glbSpk) \/ tj[t] > Len(ksg.rows[ksg.glbSpk[lid(t) + 1]])
       THEN /\ tpc' = [tpc EXCEPT ![t] = AfterSpikes]
            /\ UNCHANGED <<inSyn, denDelay, shLg, linSyn, tj, contributed>>
       ELSE /\ AddToInSyn(t, ksg.rows[ksg.glbSpk[lid(t) + 1]][tj[t]], TRUE)
            /\ tj' = [tj EXCEPT ![t] = @ + 1]
            /\ tpc' = tpc
    /\ ksg' = ksg
    /\ UNCHANGED notPresyn

\* __syncthreads() before shLg is written back
SyncStored(t) ==
    /\ tpc[t] = "syncStored"
    /\ AllReached(t, {"load", "syncLoaded", "spikes"})
    /\ tpc' = [tpc EXCEPT ![t] = "store"]
    /\ UNCHANGED <<ksg, inSyn, denDelay, shLg, linSyn, tj, contributed>>
    /\ UNCHANGED notPresyn

\* After the spikes: dd_inSyn[lid] = linSyn, or dd_inSyn[threadIdx.x] = shLg[threadIdx.x]
WriteBack(t) ==
    /\ tpc[t] = "store"
    /\ inSyn' = IF shouldAccumulateInLinSyn(ksg)
                THEN IF lid(t) < ksg.numTrg THEN [inSyn EXCEPT ![lid(t)] = linSyn[t]] ELSE inSyn
                ELSE IF t[2] < ksg.numTrg THEN [inSyn EXCEPT ![t[2]] = shLg[t[1]][t[2]]] ELSE inSyn
    /\ tpc' = [tpc EXCEPT ![t] = "done"]
    /\ UNCHANGED <<ksg, denDelay, shLg, linSyn, tj, contributed>>
    /\ UNCHANGED notPresyn

NextPresyn ==
    \/ \E t \in DOMAIN tpc : Preload(t)
    \/ \E t \in DOMAIN tpc : SyncLoaded(t)
    \/ \E t \in DOMAIN tpc : PostSpan(t)
    \/ \E t \in DOMAIN tpc : PreSpan(t)
    \/ \E t \in DOMAIN tpc : SyncStored(t)
    \/ \E t \in DOMAIN tpc : WriteBack(t)

SpecPresyn == InitPresyn /\ [][NextPresyn]_vars

\* C8 as stated: when the presynaptic update kernel has finished, under every interleaving
\* of its threads and blocks, every element of dd_inSyn and of dd_denDelay equals its
\* value before the kernel plus the sum of the contributions added during the kernel
C8_Original ==
    (\A t \in DOMAIN tpc : tpc[t] = "done") =>
        /\ \A i \in DOMAIN inSyn : inSyn[i] = (i + 1) + contributed["inSyn"][i]
        /\ \A i \in DOMAIN denDelay : denDelay[i] = contributed["denDelay"][i]

(***************************************************************************)
(* Part 5: the neuron update kernel (calcNeurons) for one neuron group,    *)
(* thread by thread.  A thread is <<block, threadIdx>>; __syncthreads() is *)
(* one step of a block, taken when all its threads have arrived.           *)
(***************************************************************************)
NeuronThreads == (0..((padSize(NumNeurons, NeuronUpdateBlockSize) \div NeuronUpdateBlockSize) - 1))
                    \X (0..(NeuronUpdateBlockSize - 1))
NeuronBlocks == {t[1] : t \in NeuronThreads}
nlid(t) == NeuronUpdateBlockSize * t[1] + t[2]
BlockThreads(b) == {t \in NeuronThreads : t[1] = b}

\* The spike count of the current slot was zeroed by the spike queue update; the other
\* slot, if any, still holds the spike of an earlier step.  Shared memory is uninitialised.
InitNeuron ==
    /\ nng \in {g \in [numDelaySlots : 1..2, spkQuePtr : 0..1] : g.spkQuePtr < g.numDelaySlots}
    /\ shSpkCount \in {[b \in NeuronBlocks |-> g] : g \in 0..1}
    /\ shSpk = [b \in NeuronBlocks |-> [x \in 0..(NeuronUpdateBlockSize - 1) |-> -1]]
    /\ shPosSpk = [b \in NeuronBlocks |-> -1]
    /\ glbSpkCnt = [s \in 0..(nng.numDelaySlots - 1) |-> IF s = nng.spkQuePtr THEN 0 ELSE 1]
    /\ glbSpk = [s \in 0..(nng.numDelaySlots - 1) |-> [p \in 0..(NumNeurons - 1) |->
                    IF s # nng.spkQuePtr /\ p = 0 THEN 0 ELSE -1]]
    /\ nphase = [b \in NeuronBlocks |-> 0]
    /\ narrived = {}
    /\ spiked = {}
    /\ IdleStep /\ IdleIR /\ IdleFuse /\ IdlePresyn /\ IdleRuntime /\ IdleModel /\ IdleCode /\ IdleSIMT

\* "if (threadIdx.x == 0);" followed by the scope "shSpkCount = 0;": the if controls the
\* empty statement, so every thread of the block zeroes the count
ResetSpkCount(t) ==
    /\ nphase[t[1]] = 0 /\ t \notin narrived
    /\ shSpkCount' = [shSpkCount EXCEPT ![t[1]] = 0]
    /\ narrived' = narrived \cup {t}
    /\ UNCHANGED <<nng, shSpk, shPosSpk, glbSpkCnt, glbSpk, nphase, spiked>>
    /\ UNCHANGED notNeuron

\* __syncthreads()
SyncThreads(b) ==
    /\ nphase[b] < 3
    /\ BlockThreads(b) \subseteq narrived
    /\ nphase' = [nphase EXCEPT ![b] = @ + 1]
    /\ narrived' = narrived \ BlockThreads(b)
    /\ UNCHANGED <<nng, shSpkCount, shSpk, shPosSpk, glbSpkCnt, glbSpk, spiked>>
    /\ UNCHANGED notNeuron

\* genEmitSpike with a plain read of the count in place of the atomic fetch-add
EmitSpike_NoIncrement(t) ==
    /\ shSpk' = [shSpk EXCEPT ![t[1]][shSpkCount[t[1]]] = nlid(t)]
    /\ shSpkCount' = shSpkCount

\* genEmitSpike: spkIdx = atomicAdd(&shSpkCount, 1); shSpk[spkIdx] = lid
EmitSpike(t) ==
    /\ shSpk' = [shSpk EXCEPT ![t[1]][shSpkCount[t[1]]] = nlid(t)]
    /\ shSpkCount' = [shSpkCount EXCEPT ![t[1]] = @ + 1]

\* The neuron group's handler: the thread of an existing neuron updates it and, when its
\* threshold condition holds, emits a spike
UpdateNeuron(t) ==
    /\ nphase[t[1]] = 1 /\ t \notin narrived
    /\ \E spike \in BOOLEAN :
        IF spike /\ nlid(t) < NumNeurons
        THEN EmitSpike(t) /\ spiked' = spiked \cup {nlid(t)}
        ELSE UNCHANGED <<shSpk, shSpkCount, spiked>>
    /\ narrived' = narrived \cup {t}
    /\ UNCHANGED <<nng, shPosSpk, glbSpkCnt, glbSpk, nphase>>
    /\ UNCHANGED notNeuron

\* Thread 0: if (spkCount > 0) posSpk = atomicAdd(&dd_glbSpkCnt[dd_spkQuePtr], spkCount);
\* the other threads go on to the barrier
ReserveRange(t) ==
    /\ nphase[t[1]] = 2 /\ t \notin narrived
    /\ IF t[2] = 0 /\ shSpkCount[t[1]] > 0
       THEN /\ shPosSpk' = [shPosSpk EXCEPT ![t[1]] = glbSpkCnt[nng.spkQuePtr]]
            /\ glbSpkCnt' = [glbSpkCnt EXCEPT ![nng.spkQuePtr] = @ + shSpkCount[t[1]]]
       ELSE UNCHANGED <<shPosSpk, glbSpkCnt>>
    /\ narrived' = narrived \cup {t}
    /\ UNCHANGED <<nng, shSpkCount, shSpk, glbSpk, nphase, spiked>>
    /\ UNCHANGED notNeuron

\* if (threadIdx.x < spkCount) dd_glbSpk[queueOffset + posSpk + threadIdx.x] = shSpk[threadIdx.x]
CopySpike(t) ==
    /\ nphase[t[1]] = 3 /\ t \notin narrived
    /\ glbSpk' = IF t[2] < shSpkCount[t[1]]
                 THEN [glbSpk EXCEPT ![nng.spkQuePtr][shPosSpk[t[1]] + t[2]] = shSpk[t[1]][t[2]]]
                 ELSE glbSpk
    /\ narrived' = narrived \cup {t}
    /\ UNCHANGED <<nng, shSpkCount, shSpk, shPosSpk, glbSpkCnt, nphase, spiked>>
    /\ UNCHANGED notNeuron

NextNeuron ==
    \/ \E t \in NeuronThreads : ResetSpkCount(t)
    \/ \E b \in NeuronBlocks : SyncThreads(b)
    \/ \E t \in NeuronThreads : UpdateNeuron(t)
    \/ \E t \in NeuronThreads : ReserveRange(t)
    \/ \E t \in NeuronThreads : CopySpike(t)

SpecNeuron == InitNeuron /\ [][NextNeuron]_vars

\* The neurons of a block that spiked, and the kernel having finished
SpikedIn(b) == {n \in spiked : \E t \in BlockThreads(b) : nlid(t) = n}
NeuronKernelDone == \A b \in DOMAIN nphase : nphase[b] = 3 /\ BlockThreads(b) \subseteq narrived

RequiredSymbols == <<"allocateMem", "freeMem", "initialize", "initializeSparse", "stepTime">>

\* Runtime::getSymbol with allowMissing false: the symbol, or the exception
getSymbol(symbolName) == IF symbolName \in libraryExports THEN symbolName ELSE "throw"

\* The code fragments of a weight update model
WUCodeFragments ==
    {"sim", "event", "synapseDynamics", "postLearn", "preSpike", "postSpike", "preDynamics",
     "postDynamics"}

\* SynapseGroup::isDendriticDelayRequired; sg.code[f] holds the identifiers fragment f references
isDendriticDelayRequired(sg) ==
    \/ isIdentifierReferenced("addToPostDelay", sg.code["sim"])
    \/ isIdentifierReferenced("addToPostDelay", sg.code["event"])
    \/ isIdentifierReferenced("addToPostDelay", sg.code["synapseDynamics"])

\* The synapse groups a Runtime is tried on: a group from N0 to N1 without weight update or
\* postsynaptic model variables and without sparse or bitmask connectivity, in which at most
\* one code fragment references addToPostDelay
RuntimeSynapseGroups ==
    {[name |-> "S", trg |-> "N1",
      code |-> [f \in WUCodeFragments |-> IF f \in F THEN {"addToPostDelay"} ELSE {}],
      maxDendriticDelayTimesteps |-> m] :
        F \in {X \in SUBSET WUCodeFragments : Cardinality(X) <= 1},
        m \in 1..MaxRuntimeDendriticDelay}

\* The neuron groups a Runtime is tried on: no state variables, no current sources, no
\* spike times
RuntimeNeuronGroup(name, spk, spkEvnt, rec, recEvnt) ==
    [name |-> name, numNeurons |-> RuntimeNumNeurons, numDelaySlots |-> 1,
     trueSpikeRequired |-> spk, spikeEventRequired |-> spkEvnt,
     spikeRecordingEnabled |-> rec, spikeEventRecordingEnabled |-> recEvnt]

\* A model of the neuron groups N0 and N1 and one synapse group; getNeuronGroups()
\* iterates in the order of the names
RuntimeModel(dt, batchSize, n0, n1, sg) ==
    [dt |-> dt, batchSize |-> batchSize, neuronGroups |-> <<n0, n1>>, synapseGroups |-> <<sg>>]

\* The models a Runtime is tried on: every combination of the neuron groups' spike and
\* recording flags around a synapse group that does not use addToPostDelay, and every
\* synapse group between neuron groups that emit spikes and record nothing
RuntimeModels ==
    {RuntimeModel(dt, 1, RuntimeNeuronGroup("N0", s0, FALSE, r0, FALSE),
                  RuntimeNeuronGroup("N1", s1, e1, r1, re1), sg) :
        dt \in 1..MaxDT, s0 \in BOOLEAN, r0 \in BOOLEAN,
        s1 \in BOOLEAN, e1 \in BOOLEAN, r1 \in BOOLEAN, re1 \in BOOLEAN,
        sg \in {g \in RuntimeSynapseGroups :
                   /\ \A f \in WUCodeFragments : g.code[f] = {}
                   /\ g.maxDendriticDelayTimesteps = 1}}
    \cup
    {RuntimeModel(1, b, RuntimeNeuronGroup("N0", TRUE, FALSE, FALSE, FALSE),
                  RuntimeNeuronGroup("N1", TRUE, FALSE, FALSE, FALSE), sg) :
        b \in 1..MaxBatchSize, sg \in RuntimeSynapseGroups}

InitRuntime ==
    /\ libraryExists \in BOOLEAN
    /\ libraryExports \in SUBSET {RequiredSymbols[i] : i \in DOMAIN RequiredSymbols}
    /\ rtState = "none"
    /\ m_Library = "null"
    /\ m_Symbols = {}
    /\ m_Timestep = 0
    /\ allocated = FALSE
    /\ libraryLoads = 0 /\ libraryCloses = 0 /\ freeMemCalls = 0
    /\ rtModel = NoRuntimeModel /\ arrays = <<>>
    /\ m_NumRecordingTimesteps = NoRecordingTimesteps /\ allocateCalls = 0
    /\ lastNumRecordingTimesteps = NoRecordingTimesteps /\ lastError = "none"
    /\ arraysBefore = <<>> /\ stepCalls = <<>> /\ dtorLog = <<>>
    /\ IdleStep /\ IdleIR /\ IdleFuse /\ IdlePresyn /\ IdleNeuron /\ IdleModel /\ IdleCode /\ IdleSIMT

\* Runtime::Runtime: dlopen, then the five symbols are looked up; the constructor throws
\* when the library cannot be loaded and when a symbol is missing, and the destructor of
\* an object whose constructor threw does not run
Runtime(modelMerged) ==
    /\ rtState = "none"
    /\ IF ~libraryExists
       THEN /\ rtState' = "failed"
            /\ UNCHANGED <<m_Library, m_Symbols, libraryLoads, rtModel>>
       ELSE LET missing == {i \in DOMAIN RequiredSymbols : getSymbol(RequiredSymbols[i]) = "throw"}
                first == IF missing = {} THEN Len(RequiredSymbols) + 1
                         ELSE CHOOSE i \in missing : \A k \in missing : i <= k
            IN  /\ m_Library' = "handle"
                /\ libraryLoads' = libraryLoads + 1
                /\ m_Symbols' = {RequiredSymbols[i] : i \in 1..(first - 1)}
                /\ rtState' = IF missing = {} THEN "alive" ELSE "failed"
                /\ rtModel' = IF missing = {} THEN modelMerged ELSE rtModel
    /\ UNCHANGED <<libraryExists, libraryExports, m_Timestep, allocated, libraryCloses, freeMemCalls,
                   arrays, m_NumRecordingTimesteps, allocateCalls, lastNumRecordingTimesteps,
                   lastError, arraysBefore, stepCalls, dtorLog>>
    /\ UNCHANGED notRuntime

\* ceilDivide of the GeNN utilities
ceilDivide(numerator, denominator) == (numerator + denominator - 1) \div denominator

\* Runtime::createArray with every array created so far passed in: try_emplace does not
\* replace an array that exists under the name, and the call throws
createArray_NoCheck(arrs, group, varName, count) ==
    [arrays |-> Append(arrs, [group |-> group, name |-> varName, count |-> count]),
     error |-> "none"]

createArray(arrs, group, varName, count) ==
    IF \E i \in DOMAIN arrs : arrs[i].group = group /\ arrs[i].name = varName
    THEN [arrays |-> arrs, error |-> "DuplicateArray"]
    ELSE [arrays |-> Append(arrs, [group |-> group, name |-> varName, count |-> count]),
          error |-> "none"]

\* One statement of Runtime::allocate that can throw
AllocateOp(op, group, varName, count) == [op |-> op, group |-> group, name |-> varName, count |-> count]

\* The condition under which allocate asks for the number of recording timesteps
RecordingRequested_SpikesOnly(n) == n.spikeRecordingEnabled

RecordingRequested(n) == n.spikeRecordingEnabled \/ n.spikeEventRecordingEnabled

\* The statements of the neuron group loop of Runtime::allocate for neuron group n
NeuronGroupOps(mdl, n, numRecordingTimesteps) ==
    LET batchSize == mdl.batchSize
        numNeuronDelaySlots == batchSize * n.numNeurons * n.numDelaySlots
        numRecordingWords == (ceilDivide(n.numNeurons, 32) * batchSize) * numRecordingTimesteps
        fusedPSMInSyn == SelectSeq(mdl.synapseGroups, LAMBDA sg : sg.trg = n.name)
        psm(sg) ==
            <<AllocateOp("createArray", sg.name, "outPost", n.numNeurons * batchSize)>>
            \o (IF isDendriticDelayRequired(sg)
                THEN <<AllocateOp("createArray", sg.name, "denDelay",
                                  sg.maxDendriticDelayTimesteps * n.numNeurons * batchSize)>>
                ELSE <<>>)
    IN  (IF n.trueSpikeRequired
         THEN <<AllocateOp("createArray", n.name, "spkCnt", batchSize * n.numDelaySlots),
                AllocateOp("createArray", n.name, "spk", numNeuronDelaySlots)>>
         ELSE <<>>)
        \o (IF n.spikeEventRequired
            THEN <<AllocateOp("createArray", n.name, "spkEvntCnt", batchSize * n.numDelaySlots),
                   AllocateOp("createArray", n.name, "spkEvnt", numNeuronDelaySlots)>>
            ELSE <<>>)
        \o (IF RecordingRequested(n)
            THEN <<AllocateOp("requireRecordingTimesteps", n.name, "", 0),
                   IF n.spikeRecordingEnabled
                   THEN AllocateOp("createArray", n.name, "recordSpk", numRecordingWords)
                   ELSE AllocateOp("createArray", n.name, "recordSpkEvent", numRecordingWords)>>
            ELSE <<>>)
        \o (IF fusedPSMInSyn = <<>> THEN <<>> ELSE psm(fusedPSMInSyn[1]))

\* The statements of Runtime::allocate that can throw, in the order of the code
RECURSIVE AllocateOps(_, _, _)
AllocateOps(mdl, i, numRecordingTimesteps) ==
    IF i > Len(mdl.neuronGroups) THEN <<>>
    ELSE NeuronGroupOps(mdl, mdl.neuronGroups[i], numRecordingTimesteps)
         \o AllocateOps(mdl, i + 1, numRecordingTimesteps)

\* Runs the statements until one throws
RECURSIVE RunAllocate(_, _, _)
RunAllocate(ops, arrs, numRecordingTimesteps) ==
    IF ops = <<>> THEN [arrays |-> arrs, error |-> "none"]
    ELSE LET o == Head(ops)
         IN  IF o.op = "requireRecordingTimesteps"
             THEN IF numRecordingTimesteps = NoRecordingTimesteps
                  THEN [arrays |-> arrs, error |-> "RecordingUnset"]
                  ELSE RunAllocate(Tail(ops), arrs, numRecordingTimesteps)
             ELSE LET r == createArray(arrs, o.group, o.name, o.count)
                  IN  IF r.error # "none" THEN r
                      ELSE RunAllocate(Tail(ops), r.arrays, numRecordingTimesteps)

\* Runtime::allocate: calls the library's allocateMem, stores the number of recording
\* timesteps and creates the arrays; the Runtime stays alive when it throws
allocate(numRecordingTimesteps) ==
    /\ rtState = "alive"
    /\ allocateCalls < MaxAllocateCalls
    /\ allocated' = TRUE
    /\ m_NumRecordingTimesteps' = numRecordingTimesteps
    /\ LET r == RunAllocate(AllocateOps(rtModel, 1, numRecordingTimesteps), arrays,
                            numRecordingTimesteps)
       IN  /\ arrays' = r.arrays
           /\ lastError' = r.error
    /\ arraysBefore' = arrays
    /\ allocateCalls' = allocateCalls + 1
    /\ lastNumRecordingTimesteps' = numRecordingTimesteps
    /\ UNCHANGED <<libraryExists, libraryExports, rtState, m_Library, m_Symbols, m_Timestep,
                   libraryLoads, libraryCloses, freeMemCalls, rtModel, stepCalls, dtorLog>>
    /\ UNCHANGED notRuntime

\* std::optional::value_or
value_or_Default(opt, default) == default

value_or(opt, default) == IF opt = NoRecordingTimesteps THEN default ELSE opt

\* Runtime::stepTime: calls the library's stepTime and increments m_Timestep
stepTime ==
    /\ rtState = "alive"
    /\ m_Timestep < MaxRuntimeSteps
    /\ stepCalls' = Append(stepCalls, <<m_Timestep, value_or(m_NumRecordingTimesteps, 0)>>)
    /\ m_Timestep' = m_Timestep + 1
    /\ UNCHANGED <<libraryExists, libraryExports, rtState, m_Library, m_Symbols, allocated,
                   libraryLoads, libraryCloses, freeMemCalls, rtModel, arrays,
                   m_NumRecordingTimesteps, allocateCalls, lastNumRecordingTimesteps, lastError,
                   arraysBefore, dtorLog>>
    /\ UNCHANGED notRuntime

\* Runtime::getTime
getTime == m_Timestep * rtModel.dt

\* Runtime::~Runtime: if(m_Library) { m_FreeMem(); dlclose(m_Library); m_Library = nullptr; }
\* and then, the body having run, the members are destroyed and with them the arrays
RuntimeDtor ==
    /\ rtState = "alive"
    /\ rtState' = "destroyed"
    /\ IF m_Library # "null"
       THEN /\ freeMemCalls' = freeMemCalls + 1
            /\ libraryCloses' = libraryCloses + 1
            /\ m_Library' = "null"
       ELSE UNCHANGED <<freeMemCalls, libraryCloses, m_Library>>
    /\ dtorLog' = (IF m_Library # "null" THEN <<"freeMem", "dlclose">> ELSE <<>>)
                  \o (IF arrays # <<>> THEN <<"releaseArrays">> ELSE <<>>)
    /\ arrays' = <<>>
    /\ UNCHANGED <<libraryExists, libraryExports, m_Symbols, m_Timestep, allocated, libraryLoads,
                   rtModel, m_NumRecordingTimesteps, allocateCalls, lastNumRecordingTimesteps,
                   lastError, arraysBefore, stepCalls>>
    /\ UNCHANGED notRuntime

NextRuntime ==
    \/ \E modelMerged \in RuntimeModels : Runtime(modelMerged)
    \/ \E n \in {NoRecordingTimesteps} \cup (0..MaxRecordingTimesteps) : allocate(n)
    \/ stepTime
    \/ RuntimeDtor

SpecRuntime == InitRuntime /\ [][NextRuntime]_vars

\* C10 as stated: over the lifetime of a Runtime the library handle is closed exactly once:
\* it is never closed twice, and once the lifetime of a Runtime that loaded the library is
\* over (it was destroyed, or its construction did not complete) the library was unloaded
C10_Original ==
    /\ libraryCloses <= 1
    /\ (rtState \in {"failed", "destroyed"} /\ libraryLoads > 0) => libraryCloses = 1

\* The position of event e in the destruction log (0: it did not happen)
DtorIndex(e) ==
    IF \E i \in DOMAIN dtorLog : dtorLog[i] = e
    THEN CHOOSE i \in DOMAIN dtorLog : dtorLog[i] = e
    ELSE 0

\* C11 as stated: when a Runtime is destroyed, every array it owns is released before the
\* library's freeMem is called, and freeMem is called before the library is unloaded
C11_Original ==
    rtState = "destroyed" =>
        /\ arrays = <<>>
        /\ DtorIndex("freeMem") > 0 /\ DtorIndex("dlclose") > DtorIndex("freeMem")
        /\ DtorIndex("releaseArrays") > 0 => DtorIndex("releaseArrays") < DtorIndex("freeMem")

\* C14 as stated: a synapse group with a weight update code fragment that references
\* addToPostDelay requires dendritic delay, and a completed allocate has created its denDelay
\* array with maxDendriticDelayTimesteps x numPostNeurons x batchSize elements
C14_Original ==
    rtState = "alive" =>
        \A k \in DOMAIN rtModel.synapseGroups :
            LET sg == rtModel.synapseGroups[k]
            IN  (\E f \in WUCodeFragments : "addToPostDelay" \in sg.code[f]) =>
                    /\ isDendriticDelayRequired(sg)
                    /\ (allocateCalls >= 1 /\ lastError = "none") =>
                           \E i \in DOMAIN arrays :
                               /\ arrays[i].group = sg.name /\ arrays[i].name = "denDelay"
                               /\ arrays[i].count = sg.maxDendriticDelayTimesteps
                                                    * RuntimeNumNeurons * rtModel.batchSize

\* Some neuron group records spikes or spike events and the last allocate call got no
\* number of recording timesteps
RecordingWithoutSize ==
    /\ \E i \in DOMAIN rtModel.neuronGroups :
           \/ rtModel.neuronGroups[i].spikeRecordingEnabled
           \/ rtModel.neuronGroups[i].spikeEventRecordingEnabled
    /\ lastNumRecordingTimesteps = NoRecordingTimesteps

\* C16 as stated: an allocate call fails with RecordingUnset exactly when some neuron group
\* records spikes or spike events and no number of recording timesteps was supplied
C16_Original ==
    allocateCalls >= 1 => (lastError = "RecordingUnset" <=> RecordingWithoutSize)

\* The statements of the last allocate call
LastAllocateOps == AllocateOps(rtModel, 1, lastNumRecordingTimesteps)

\* In the last allocate call, an array created before the first check of the number of
\* recording timesteps was one the Runtime owned already
DuplicateBeforeRecordingCheck ==
    \E i \in DOMAIN LastAllocateOps :
        /\ LastAllocateOps[i].op = "requireRecordingTimesteps"
        /\ \E j \in 1..(i - 1) :
               /\ LastAllocateOps[j].op = "createArray"
               /\ \E k \in DOMAIN arraysBefore :
                      /\ arraysBefore[k].group = LastAllocateOps[j].group
                      /\ arraysBefore[k].name = LastAllocateOps[j].name
               /\ \A h \in 1..(j - 1) : LastAllocateOps[h].op = "createArray"

\* C16 (as the code has it): an allocate call fails with RecordingUnset exactly when some
\* neuron group records spikes or spike events, no number of recording timesteps was supplied
\* and no array that allocate creates before it looks at the number is one the Runtime owns
\* already; in that last case the call fails with DuplicateArray.  With a number supplied,
\* or no recording group, the call never fails with RecordingUnset
C16_RecordingUnset ==
    allocateCalls >= 1 =>
        /\ lastError = "RecordingUnset" <=>
               (RecordingWithoutSize /\ ~DuplicateBeforeRecordingCheck)
        /\ (RecordingWithoutSize /\ DuplicateBeforeRecordingCheck) =>
               lastError = "DuplicateArray"
        /\ (lastNumRecordingTimesteps # NoRecordingTimesteps) => lastError # "RecordingUnset"

C16_Witness ==
    /\ allocateCalls = 1 /\ lastError = "RecordingUnset"
    /\ ~rtModel.neuronGroups[1].spikeRecordingEnabled
    /\ Len(arrays) >= 2

\* C17: the Runtime never owns two arrays of one (group, name); a createArray that finds one
\* throws DuplicateArray and leaves the arrays as they were, so that an allocate call on a
\* Runtime that owns arrays fails
C17_OneArrayPerName ==
    /\ \A i, j \in DOMAIN arrays :
           (arrays[i].group = arrays[j].group /\ arrays[i].name = arrays[j].name) => i = j
    /\ (rtState = "alive" /\ allocateCalls >= 1) =>
           /\ Len(arraysBefore) <= Len(arrays)
           /\ SubSeq(arrays, 1, Len(arraysBefore)) = arraysBefore
           /\ lastError = "DuplicateArray" => arrays = arraysBefore
           /\ arraysBefore # <<>> => (lastError # "none" /\ arrays = arraysBefore)

C17_Witness ==
    /\ rtState = "alive" /\ allocateCalls = 2 /\ lastError = "DuplicateArray"
    /\ lastNumRecordingTimesteps = 1
    /\ \E i \in DOMAIN arrays : arrays[i].name = "recordSpk" /\ arrays[i].count = 0

\* C18: every Runtime::stepTime call calls the library's stepTime once, with the timestep
\* counter and the number of recording timesteps (0 when there is none), and then increments
\* the counter: the k-th call passes k - 1 and getTime() is the number of calls times DT
C18_StepTime ==
    /\ [](/\ Len(stepCalls) = m_Timestep
          /\ \A k \in DOMAIN stepCalls : stepCalls[k][1] = k - 1
          /\ getTime = Len(stepCalls) * rtModel.dt)
    /\ [][stepCalls' # stepCalls =>
            /\ stepCalls' = Append(stepCalls,
                                   <<m_Timestep,
                                     IF m_NumRecordingTimesteps = NoRecordingTimesteps
                                     THEN 0 ELSE m_NumRecordingTimesteps>>)
            /\ m_Timestep' = m_Timestep + 1]_vars

C18_Witness ==
    /\ m_Timestep = 3 /\ stepCalls[1] = <<0, 0>> /\ stepCalls[3] = <<2, 1>>
    /\ rtModel.dt = 2 /\ getTime = 6


\* C27 as stated: after a successful allocate every neuron group with spike-event recording
\* enabled has its recordSpkEvent array of ceil(N/32) x batchSize x numRecordingTimesteps
\* words, whether or not spike recording is enabled for the group too
C27_Original ==
    (rtState = "alive" /\ allocateCalls >= 1 /\ lastError = "none") =>
        \A k \in DOMAIN rtModel.neuronGroups :
            LET n == rtModel.neuronGroups[k]
            IN  n.spikeEventRecordingEnabled =>
                    \E i \in DOMAIN arrays :
                        /\ arrays[i].group = n.name /\ arrays[i].name = "recordSpkEvent"
                        /\ arrays[i].count = (ceilDivide(n.numNeurons, 32) * rtModel.batchSize)
                                                * lastNumRecordingTimesteps

(***************************************************************************)
(* Part 7: the ModelSpec, the construction of a synapse group, its setters *)
(* and finalise.                                                           *)
(***************************************************************************)
\* SynapseMatrixConnectivity
Connectivities == {"DENSE", "BITMASK", "SPARSE", "PROCEDURAL", "TOEPLITZ"}

\* std::numeric_limits<uint8_t>::max() and std::numeric_limits<uint16_t>::max()
Uint8Max == 255
Uint16Max == 65535

\* The sizes of the target neuron group the synapse groups are tried with
NumTrgNeuronsValues == {200, Uint8Max, Uint8Max + 1, 300, Uint16Max, Uint16Max + 1}

\* The variables of the postsynaptic and weight update models of the synapse group
ModelPSVarNames == {"x"}
ModelWUVarNames == {"g"}
ModelWUPreVarNames == {"preTrace"}
ModelWUPostVarNames == {"postTrace"}

\* The arguments of the SynapseGroup constructor: the connectivity of the matrix type,
\* whether the connectivity initialisers have row build, column build and diagonal build
\* code, whether the weight update model has post-learn and synapse dynamics code, the
\* identifiers its sim code references, the size of the target neuron group and the model's
\* default for narrow sparse indices
SynapseGroupArgs(connectivity, rowBuild, colBuild, diagBuild, postLearn, synDyn, sim, n, narrow) ==
    [connectivity |-> connectivity, rowBuildCode |-> rowBuild, colBuildCode |-> colBuild,
     diagonalBuildCode |-> diagBuild, postLearnCode |-> postLearn,
     synapseDynamicsCode |-> synDyn, simCodeTokens |-> sim, numTrgNeurons |-> n,
     defaultNarrowSparseIndEnabled |-> narrow]

\* The constructor arguments tried: every connectivity with every combination of code, and
\* sparse and dense groups of every size with either default for narrow sparse indices
ConstructorInputs ==
    {SynapseGroupArgs(c, rb, cb, db, pl, sd, {}, 200, FALSE) :
        c \in Connectivities, rb \in BOOLEAN, cb \in BOOLEAN, db \in BOOLEAN, pl \in BOOLEAN,
        sd \in BOOLEAN}
    \cup
    {SynapseGroupArgs(c, FALSE, FALSE, FALSE, FALSE, FALSE, {}, n, d) :
        c \in {"SPARSE", "DENSE"}, n \in NumTrgNeuronsValues, d \in BOOLEAN}

\* The checks of the SynapseGroup constructor on connectivity against code, in its order:
\* "throw" when one of them throws, "none" otherwise
SynapseGroupThrows_NoPostLearnCheck(a) ==
    IF /\ a.connectivity = "PROCEDURAL"
       /\ (a.diagonalBuildCode \/ ~a.rowBuildCode \/ a.colBuildCode \/ a.synapseDynamicsCode)
    THEN "throw"
    ELSE IF /\ a.connectivity = "TOEPLITZ"
            /\ (a.rowBuildCode \/ a.colBuildCode \/ ~a.diagonalBuildCode)
    THEN "throw"
    ELSE IF a.connectivity = "DENSE" /\ (a.rowBuildCode \/ a.colBuildCode)
    THEN "throw"
    ELSE "none"

SynapseGroupThrows(a) ==
    IF /\ a.connectivity = "PROCEDURAL"
       /\ (a.diagonalBuildCode \/ ~a.rowBuildCode \/ a.colBuildCode \/ a.postLearnCode
           \/ a.synapseDynamicsCode)
    THEN "throw"
    ELSE IF /\ a.connectivity = "TOEPLITZ"
            /\ (a.rowBuildCode \/ a.colBuildCode \/ ~a.diagonalBuildCode \/ a.postLearnCode)
    THEN "throw"
    ELSE IF a.connectivity = "DENSE" /\ (a.rowBuildCode \/ a.colBuildCode)
    THEN "throw"
    ELSE "none"

\* The synapse group the constructor's initialiser list builds from its arguments
NewSynapseGroup(a) ==
    [connectivity |-> a.connectivity, rowBuildCode |-> a.rowBuildCode,
     colBuildCode |-> a.colBuildCode, diagonalBuildCode |-> a.diagonalBuildCode,
     postLearnCode |-> a.postLearnCode, synapseDynamicsCode |-> a.synapseDynamicsCode,
     simCodeTokens |-> a.simCodeTokens, numTrgNeurons |-> a.numTrgNeurons,
     narrowSparseIndEnabled |-> a.defaultNarrowSparseIndEnabled,
     PSVarLocation |-> [v \in ModelPSVarNames |-> HOST_DEVICE],
     WUVarLocation |-> [v \in ModelWUVarNames |-> HOST_DEVICE],
     WUPreVarLocation |-> [v \in ModelWUPreVarNames |-> HOST_DEVICE],
     WUPostVarLocation |-> [v \in ModelWUPostVarNames |-> HOST_DEVICE],
     WUDerivedParams |-> {}, PSDerivedParams |-> {},
     spanType |-> "POSTSYNAPTIC", numThreadsPerSpike |-> 1]

\* ModelSpec::addSynapsePopulation: constructs the synapse group; nothing is added when the
\* constructor throws
addSynapsePopulation(a) ==
    /\ m_LocalSynapseGroups = <<>>
    /\ lastCallError' = SynapseGroupThrows(a)
    /\ m_LocalSynapseGroups' = IF SynapseGroupThrows(a) = "none"
                               THEN <<NewSynapseGroup(a)>> ELSE m_LocalSynapseGroups
    /\ lastConstructorArgs' = <<a>>
    /\ UNCHANGED <<m_DT, m_BatchSize, m_SpikeLocation, m_CurrentSourceVarLocation,
                   m_CustomUpdateVarLocation, m_VarQueueRequired, finaliseCalls>>
    /\ UNCHANGED notModel

\* SynapseGroup::setNarrowSparseIndEnabled on synapse group sg: the group after the call and
\* whether the call threw
NarrowSparseIndEnabledSet_Unchecked(sg, enabled) ==
    [sg |-> [sg EXCEPT !.narrowSparseIndEnabled = enabled], error |-> "none"]

NarrowSparseIndEnabledSet(sg, enabled) ==
    IF sg.connectivity = "SPARSE"
    THEN [sg |-> [sg EXCEPT !.narrowSparseIndEnabled = enabled], error |-> "none"]
    ELSE [sg |-> sg, error |-> "throw"]

setNarrowSparseIndEnabled(enabled) ==
    /\ m_LocalSynapseGroups # <<>>
    /\ LET r == NarrowSparseIndEnabledSet(m_LocalSynapseGroups[1], enabled)
       IN  /\ m_LocalSynapseGroups' = <<r.sg>>
           /\ lastCallError' = r.error
    /\ UNCHANGED <<m_DT, m_BatchSize, m_SpikeLocation, m_CurrentSourceVarLocation,
                   m_CustomUpdateVarLocation, m_VarQueueRequired, finaliseCalls,
                   lastConstructorArgs>>
    /\ UNCHANGED notModel

\* SynapseGroup::setSpanType on synapse group sg: the group after the call and whether the
\* call threw
SpanTypeSet(sg, spanType) ==
    IF sg.connectivity = "SPARSE" \/ sg.connectivity = "PROCEDURAL"
    THEN [sg |-> [sg EXCEPT !.spanType = spanType], error |-> "none"]
    ELSE [sg |-> sg, error |-> "throw"]

setSpanType(spanType) ==
    /\ m_LocalSynapseGroups # <<>>
    /\ LET r == SpanTypeSet(m_LocalSynapseGroups[1], spanType)
       IN  /\ m_LocalSynapseGroups' = <<r.sg>>
           /\ lastCallError' = r.error
    /\ UNCHANGED <<m_DT, m_BatchSize, m_SpikeLocation, m_CurrentSourceVarLocation,
                   m_CustomUpdateVarLocation, m_VarQueueRequired, finaliseCalls,
                   lastConstructorArgs>>
    /\ UNCHANGED notModel

\* SynapseGroup::setNumThreadsPerSpike on synapse group sg
NumThreadsPerSpikeSet(sg, numThreadsPerSpike) ==
    IF sg.spanType = "PRESYNAPTIC"
    THEN [sg |-> [sg EXCEPT !.numThreadsPerSpike = numThreadsPerSpike], error |-> "none"]
    ELSE [sg |-> sg, error |-> "throw"]

setNumThreadsPerSpike(numThreadsPerSpike) ==
    /\ m_LocalSynapseGroups # <<>>
    /\ LET r == NumThreadsPerSpikeSet(m_LocalSynapseGroups[1], numThreadsPerSpike)
       IN  /\ m_LocalSynapseGroups' = <<r.sg>>
           /\ lastCallError' = r.error
    /\ UNCHANGED <<m_DT, m_BatchSize, m_SpikeLocation, m_CurrentSourceVarLocation,
                   m_CustomUpdateVarLocation, m_VarQueueRequired, finaliseCalls,
                   lastConstructorArgs>>
    /\ UNCHANGED notModel

\* SynapseGroup::getSparseIndType
getSparseIndType_Strict(sg) ==
    IF sg.narrowSparseIndEnabled /\ sg.numTrgNeurons < Uint8Max THEN "Uint8"
    ELSE IF sg.narrowSparseIndEnabled /\ sg.numTrgNeurons < Uint16Max THEN "Uint16"
    ELSE "Uint32"

getSparseIndType(sg) ==
    IF sg.narrowSparseIndEnabled /\ sg.numTrgNeurons <= Uint8Max THEN "Uint8"
    ELSE IF sg.narrowSparseIndEnabled /\ sg.numTrgNeurons <= Uint16Max THEN "Uint16"
    ELSE "Uint32"

InitSynapseGroup ==
    /\ IdleModel
    /\ IdleStep /\ IdleIR /\ IdleFuse /\ IdlePresyn /\ IdleNeuron /\ IdleRuntime /\ IdleCode /\ IdleSIMT

NextSynapseGroup ==
    \/ \E a \in ConstructorInputs : addSynapsePopulation(a)
    \/ \E enabled \in BOOLEAN : setNarrowSparseIndEnabled(enabled)
    \/ \E spanType \in {"POSTSYNAPTIC", "PRESYNAPTIC"} : setSpanType(spanType)
    \/ \E n \in 1..MaxThreadsPerSpike : setNumThreadsPerSpike(n)

SpecSynapseGroup == InitSynapseGroup /\ [][NextSynapseGroup]_vars

\* C15: the construction of a synapse group fails when its connectivity is PROCEDURAL and it
\* has column build, post-learn or synapse dynamics code, and when its connectivity is
\* TOEPLITZ and it has column build or post-learn code; no synapse group has such a combination
C15_ForbiddenCombinations ==
    /\ \A a \in ConstructorInputs :
           (\/ /\ a.connectivity = "PROCEDURAL"
               /\ (a.colBuildCode \/ a.postLearnCode \/ a.synapseDynamicsCode)
            \/ /\ a.connectivity = "TOEPLITZ"
               /\ (a.colBuildCode \/ a.postLearnCode)) =>
               SynapseGroupThrows(a) # "none"
    /\ \A i \in DOMAIN m_LocalSynapseGroups :
           LET sg == m_LocalSynapseGroups[i]
           IN  /\ sg.connectivity = "PROCEDURAL" =>
                      ~(sg.colBuildCode \/ sg.postLearnCode \/ sg.synapseDynamicsCode)
               /\ sg.connectivity = "TOEPLITZ" => ~(sg.colBuildCode \/ sg.postLearnCode)

C15_Witness ==
    /\ lastConstructorArgs # <<>>
    /\ lastConstructorArgs[1].connectivity = "TOEPLITZ"
    /\ lastConstructorArgs[1].diagonalBuildCode /\ lastConstructorArgs[1].postLearnCode
    /\ ~lastConstructorArgs[1].rowBuildCode /\ ~lastConstructorArgs[1].colBuildCode
    /\ lastCallError = "throw" /\ m_LocalSynapseGroups = <<>>

\* C19: with narrow sparse indices enabled the sparse index type is uint8 up to 255 target
\* neurons, uint16 up to 65535 and uint32 above, and it is uint32 when they are disabled;
\* on a synapse group without SPARSE connectivity setNarrowSparseIndEnabled throws and
\* changes nothing
C19_SparseIndType ==
    \A i \in DOMAIN m_LocalSynapseGroups :
        LET sg == m_LocalSynapseGroups[i]
            n == sg.numTrgNeurons
        IN  /\ sg.narrowSparseIndEnabled =>
                   /\ n <= 255 => getSparseIndType(sg) = "Uint8"
                   /\ (n > 255 /\ n <= 65535) => getSparseIndType(sg) = "Uint16"
                   /\ n > 65535 => getSparseIndType(sg) = "Uint32"
                   /\ n = 200 => getSparseIndType(sg) = "Uint8"
                   /\ n = 300 => getSparseIndType(sg) = "Uint16"
            /\ ~sg.narrowSparseIndEnabled => getSparseIndType(sg) = "Uint32"
            /\ sg.connectivity # "SPARSE" =>
                   \A enabled \in BOOLEAN :
                       /\ NarrowSparseIndEnabledSet(sg, enabled).error # "none"
                       /\ NarrowSparseIndEnabledSet(sg, enabled).sg = sg

C19_Witness ==
    /\ m_LocalSynapseGroups # <<>>
    /\ m_LocalSynapseGroups[1].connectivity = "SPARSE"
    /\ m_LocalSynapseGroups[1].narrowSparseIndEnabled
    /\ m_LocalSynapseGroups[1].numTrgNeurons = 255
    /\ getSparseIndType(m_LocalSynapseGroups[1]) = "Uint8"
    /\ lastCallError = "none"

\* C26 as stated: after any sequence of setSpanType and setNumThreadsPerSpike calls, a
\* number of threads per spike other than the default 1 implies that the span type of the
\* group is PRESYNAPTIC
C26_Original ==
    \A i \in DOMAIN m_LocalSynapseGroups :
        m_LocalSynapseGroups[i].numThreadsPerSpike # 1
            => m_LocalSynapseGroups[i].spanType = "PRESYNAPTIC"

\* The locations the setters are called with
VarLocations == {HOST_DEVICE, HOST_DEVICE_ZERO_COPY}

\* The variables of the neuron groups' model
ModelNeuronVarNames == {"V"}

\* The synapse groups of the model: sparse or dense, the sim code of the weight update model
\* referencing a presynaptic neuron variable, a postsynaptic one or none
ModelSynapseGroups ==
    {NewSynapseGroup(SynapseGroupArgs(c, FALSE, FALSE, FALSE, FALSE, FALSE, t, 200, FALSE)) :
        c \in {"SPARSE", "DENSE"}, t \in {{}, {"addToPost", "V_pre"}, {"addToPost", "V_post"}}}

InitModel ==
    /\ m_DT = 1 /\ m_BatchSize = 1
    /\ m_LocalSynapseGroups \in {<<sg>> : sg \in ModelSynapseGroups}
    /\ m_SpikeLocation = HOST_DEVICE
    /\ m_CurrentSourceVarLocation = HOST_DEVICE /\ m_CustomUpdateVarLocation = HOST_DEVICE
    /\ m_VarQueueRequired = [pre |-> {}, post |-> {}]
    /\ finaliseCalls = 0 /\ lastCallError = "none" /\ lastConstructorArgs = <<>>
    /\ IdleStep /\ IdleIR /\ IdleFuse /\ IdlePresyn /\ IdleNeuron /\ IdleRuntime /\ IdleCode /\ IdleSIMT

\* ModelSpec::setDT
setDT(dt) ==
    /\ m_DT' = dt
    /\ lastCallError' = "none"
    /\ UNCHANGED <<m_BatchSize, m_LocalSynapseGroups, m_SpikeLocation,
                   m_CurrentSourceVarLocation, m_CustomUpdateVarLocation, m_VarQueueRequired,
                   finaliseCalls, lastConstructorArgs>>
    /\ UNCHANGED notModel

\* ModelSpec::setBatchSize
setBatchSize(batchSize) ==
    /\ m_BatchSize' = batchSize
    /\ lastCallError' = "none"
    /\ UNCHANGED <<m_DT, m_LocalSynapseGroups, m_SpikeLocation, m_CurrentSourceVarLocation,
                   m_CustomUpdateVarLocation, m_VarQueueRequired, finaliseCalls,
                   lastConstructorArgs>>
    /\ UNCHANGED notModel

\* What a location setter of the synapse group leaves alone
LocationSetterUnchanged ==
    /\ lastCallError' = "none"
    /\ UNCHANGED <<m_DT, m_BatchSize, m_SpikeLocation, m_CurrentSourceVarLocation,
                   m_CustomUpdateVarLocation, m_VarQueueRequired, finaliseCalls,
                   lastConstructorArgs>>
    /\ UNCHANGED notModel

\* SynapseGroup::setPSVarLocation
setPSVarLocation(varName, loc) ==
    /\ m_LocalSynapseGroups' = [m_LocalSynapseGroups EXCEPT ![1].PSVarLocation[varName] = loc]
    /\ LocationSetterUnchanged

\* SynapseGroup::setWUVarLocation
setWUVarLocation(varName, loc) ==
    /\ m_LocalSynapseGroups' = [m_LocalSynapseGroups EXCEPT ![1].WUVarLocation[varName] = loc]
    /\ LocationSetterUnchanged

\* SynapseGroup::setWUPreVarLocation
setWUPreVarLocation(varName, loc) ==
    /\ m_LocalSynapseGroups' = [m_LocalSynapseGroups EXCEPT ![1].WUPreVarLocation[varName] = loc]
    /\ LocationSetterUnchanged

\* SynapseGroup::setWUPostVarLocation
setWUPostVarLocation(varName, loc) ==
    /\ m_LocalSynapseGroups' = [m_LocalSynapseGroups EXCEPT ![1].WUPostVarLocation[varName] = loc]
    /\ LocationSetterUnchanged

\* NeuronGroup::setSpikeLocation on the source neuron group
setSpikeLocation(loc) ==
    /\ m_SpikeLocation' = loc
    /\ lastCallError' = "none"
    /\ UNCHANGED <<m_DT, m_BatchSize, m_LocalSynapseGroups, m_CurrentSourceVarLocation,
                   m_CustomUpdateVarLocation, m_VarQueueRequired, finaliseCalls,
                   lastConstructorArgs>>
    /\ UNCHANGED notModel

\* CurrentSource::setVarLocation on the variable of the current source
setCurrentSourceVarLocation(loc) ==
    /\ m_CurrentSourceVarLocation' = loc
    /\ lastCallError' = "none"
    /\ UNCHANGED <<m_DT, m_BatchSize, m_LocalSynapseGroups, m_SpikeLocation,
                   m_CustomUpdateVarLocation, m_VarQueueRequired, finaliseCalls,
                   lastConstructorArgs>>
    /\ UNCHANGED notModel

\* CustomUpdate::setVarLocation on the variable of the custom update
setCustomUpdateVarLocation(loc) ==
    /\ m_CustomUpdateVarLocation' = loc
    /\ lastCallError' = "none"
    /\ UNCHANGED <<m_DT, m_BatchSize, m_LocalSynapseGroups, m_SpikeLocation,
                   m_CurrentSourceVarLocation, m_VarQueueRequired, finaliseCalls,
                   lastConstructorArgs>>
    /\ UNCHANGED notModel

\* The derived parameters of the weight update and the postsynaptic model of the group
ModelWUDerivedParamNames == {"pDecay"}
ModelPSDerivedParamNames == {"expDecay"}

\* d.func(params, dt) for derived parameter d: the parameters are fixed, the value is kept
\* as the application of d's function to dt
DerivedParamFunc(d, dt) == <<"func", d, dt>>

\* std::unordered_map::emplace of every pair of pairs into map: a key that is present keeps
\* its value
EmplaceAll_Overwrite(map, pairs) ==
    {q \in map : ~\E p \in pairs : p[1] = q[1]} \cup pairs

EmplaceAll(map, pairs) ==
    map \cup {p \in pairs : ~\E q \in map : q[1] = p[1]}

\* The identifiers by which code refers to neuron variable v of the source and of the
\* target neuron group
PreVarIdentifier(v) == IF v = "V" THEN "V_pre" ELSE "?"
PostVarIdentifier(v) == IF v = "V" THEN "V_post" ELSE "?"

\* NeuronGroup::updatePreVarQueues and updatePostVarQueues: the variables the tokens refer
\* to are added to the variables marked
updatePreVarQueues(marked, tokens) ==
    marked \cup {v \in ModelNeuronVarNames : isIdentifierReferenced(PreVarIdentifier(v), tokens)}

updatePostVarQueues(marked, tokens) ==
    marked \cup {v \in ModelNeuronVarNames : isIdentifierReferenced(PostVarIdentifier(v), tokens)}

\* SynapseGroup::finalise(dt): what it makes of the synapse group and of the markings; of the
\* code of the groups tried only the sim code has tokens
finaliseSynapseGroup(sg, dt) ==
    [sg EXCEPT !.WUDerivedParams =
                   EmplaceAll(@, {<<d, DerivedParamFunc(d, dt)>> : d \in ModelWUDerivedParamNames}),
               !.PSDerivedParams =
                   EmplaceAll(@, {<<d, DerivedParamFunc(d, dt)>> : d \in ModelPSDerivedParamNames})]

finaliseVarQueues(sg, marked) ==
    IF sg.simCodeTokens # {}
    THEN [pre |-> updatePreVarQueues(marked.pre, sg.simCodeTokens),
          post |-> updatePostVarQueues(marked.post, sg.simCodeTokens)]
    ELSE marked

\* ModelSpec::finalise: finalises every synapse group with the model's DT
finalise ==
    /\ finaliseCalls < MaxFinaliseCalls
    /\ finaliseCalls' = finaliseCalls + 1
    /\ m_LocalSynapseGroups' = [i \in DOMAIN m_LocalSynapseGroups |->
                                   finaliseSynapseGroup(m_LocalSynapseGroups[i], m_DT)]
    /\ m_VarQueueRequired' = finaliseVarQueues(m_LocalSynapseGroups[1], m_VarQueueRequired)
    /\ lastCallError' = "none"
    /\ UNCHANGED <<m_DT, m_BatchSize, m_SpikeLocation, m_CurrentSourceVarLocation,
                   m_CustomUpdateVarLocation, lastConstructorArgs>>
    /\ UNCHANGED notModel

\* SynapseGroup::isZeroCopyEnabled
isZeroCopyEnabled_NoWUPost(sg) ==
    \/ \E v \in DOMAIN sg.PSVarLocation : "ZERO_COPY" \in sg.PSVarLocation[v]
    \/ \E v \in DOMAIN sg.WUVarLocation : "ZERO_COPY" \in sg.WUVarLocation[v]
    \/ \E v \in DOMAIN sg.WUPreVarLocation : "ZERO_COPY" \in sg.WUPreVarLocation[v]

isZeroCopyEnabled(sg) ==
    \/ \E v \in DOMAIN sg.PSVarLocation : "ZERO_COPY" \in sg.PSVarLocation[v]
    \/ \E v \in DOMAIN sg.WUVarLocation : "ZERO_COPY" \in sg.WUVarLocation[v]
    \/ \E v \in DOMAIN sg.WUPreVarLocation : "ZERO_COPY" \in sg.WUPreVarLocation[v]
    \/ \E v \in DOMAIN sg.WUPostVarLocation : "ZERO_COPY" \in sg.WUPostVarLocation[v]

\* ModelSpec::zeroCopyInUse: some neuron group, synapse group, current source or custom
\* update has zero-copy enabled
zeroCopyInUse ==
    \/ "ZERO_COPY" \in m_SpikeLocation
    \/ "ZERO_COPY" \in m_CurrentSourceVarLocation
    \/ "ZERO_COPY" \in m_CustomUpdateVarLocation
    \/ \E i \in DOMAIN m_LocalSynapseGroups : isZeroCopyEnabled(m_LocalSynapseGroups[i])

NextModel ==
    \/ \E dt \in 1..MaxDT : setDT(dt)
    \/ \E b \in 1..MaxBatchSize : setBatchSize(b)
    \/ \E v \in ModelPSVarNames, loc \in VarLocations : setPSVarLocation(v, loc)
    \/ \E v \in ModelWUVarNames, loc \in VarLocations : setWUVarLocation(v, loc)
    \/ \E v \in ModelWUPreVarNames, loc \in VarLocations : setWUPreVarLocation(v, loc)
    \/ \E v \in ModelWUPostVarNames, loc \in VarLocations : setWUPostVarLocation(v, loc)
    \/ \E loc \in VarLocations : setSpikeLocation(loc)
    \/ \E loc \in VarLocations : setCurrentSourceVarLocation(loc)
    \/ \E loc \in VarLocations : setCustomUpdateVarLocation(loc)
    \/ finalise

SpecModel == InitModel /\ [][NextModel]_vars

\* The model description: what the setters and finalise work on
ModelIR == <<m_DT, m_BatchSize, m_LocalSynapseGroups, m_SpikeLocation,
             m_CurrentSourceVarLocation, m_CustomUpdateVarLocation, m_VarQueueRequired>>

\* C12 as stated: once the model is finalised, every mutating call on the model or on one of
\* its groups fails with Frozen and leaves the model description unchanged
C12_Original ==
    [][(finaliseCalls >= 1 /\ finaliseCalls' = finaliseCalls) =>
           (ModelIR' = ModelIR /\ lastCallError' = "Frozen")]_vars

\* C13: a finalise of a finalised synapse group, with the same or with another dt, leaves
\* its weight update and postsynaptic derived parameters and the neuron groups' variable
\* queue markings as the first finalise left them
C13_FinaliseIdempotent ==
    [][(finaliseCalls >= 1 /\ finaliseCalls' = finaliseCalls + 1) =>
           /\ m_VarQueueRequired' = m_VarQueueRequired
           /\ \A i \in DOMAIN m_LocalSynapseGroups :
                  /\ m_LocalSynapseGroups'[i].WUDerivedParams =
                         m_LocalSynapseGroups[i].WUDerivedParams
                  /\ m_LocalSynapseGroups'[i].PSDerivedParams =
                         m_LocalSynapseGroups[i].PSDerivedParams]_vars

C13_Witness ==
    /\ finaliseCalls = 2 /\ m_DT = 2
    /\ m_LocalSynapseGroups[1].WUDerivedParams = {<<"pDecay", DerivedParamFunc("pDecay", 1)>>}
    /\ m_LocalSynapseGroups[1].PSDerivedParams = {<<"expDecay", DerivedParamFunc("expDecay", 1)>>}
    /\ m_VarQueueRequired = [pre |-> {"V"}, post |-> {}]

\* C20: whatever locations were set, zeroCopyInUse() holds when a postsynaptic model
\* variable, a weight update variable or a weight update pre or post variable of a synapse
\* group, the spikes of a neuron group, or a variable of a current source or of a custom
\* update are in HOST_DEVICE_ZERO_COPY memory
C20_ZeroCopyInUse ==
    (\/ m_SpikeLocation = HOST_DEVICE_ZERO_COPY
     \/ m_CurrentSourceVarLocation = HOST_DEVICE_ZERO_COPY
     \/ m_CustomUpdateVarLocation = HOST_DEVICE_ZERO_COPY
     \/ \E i \in DOMAIN m_LocalSynapseGroups :
            LET sg == m_LocalSynapseGroups[i]
            IN  \/ \E v \in ModelPSVarNames : sg.PSVarLocation[v] = HOST_DEVICE_ZERO_COPY
                \/ \E v \in ModelWUVarNames : sg.WUVarLocation[v] = HOST_DEVICE_ZERO_COPY
                \/ \E v \in ModelWUPreVarNames : sg.WUPreVarLocation[v] = HOST_DEVICE_ZERO_COPY
                \/ \E v \in ModelWUPostVarNames : sg.WUPostVarLocation[v] = HOST_DEVICE_ZERO_COPY)
        => zeroCopyInUse

C20_Witness ==
    /\ m_SpikeLocation = HOST_DEVICE
    /\ m_CurrentSourceVarLocation = HOST_DEVICE /\ m_CustomUpdateVarLocation = HOST_DEVICE
    /\ m_LocalSynapseGroups[1].PSVarLocation["x"] = HOST_DEVICE
    /\ m_LocalSynapseGroups[1].WUVarLocation["g"] = HOST_DEVICE
    /\ m_LocalSynapseGroups[1].WUPreVarLocation["preTrace"] = HOST_DEVICE
    /\ m_LocalSynapseGroups[1].WUPostVarLocation["postTrace"] = HOST_DEVICE_ZERO_COPY
    /\ zeroCopyInUse

(***************************************************************************)
(* Part 8: NeuronUpdateGroupMerged::generateNeuronUpdate and the code it   *)
(* emits, run by one neuron.  The environments the generator nests only    *)
(* buffer what is printed into them and flush it, in order, into their     *)
(* parent's stream, so the statements reach the kernel in the order of the *)
(* calls that print them.  The user's code fragments are arbitrary code:   *)
(* the sim code and the reset code leave the neuron's variable at any      *)
(* value, the other fragments cannot write it.                             *)
(***************************************************************************)

\* One statement of the emitted code: what it is, the index of the child group it belongs
\* to, and the optional parts that were emitted with it
Statement(op, index, flags) == [op |-> op, index |-> index, flags |-> flags]

\* for(auto &sg : groups) { CodeStream::Scope b(...); sg.generate(...); }
GenerateEach(op, count) == [i \in 1..count |-> Statement(op, i - 1, {})]

\* The archetype of a merged neuron-update group and the numbers of its merged child groups
NeuronUpdateGroup(psm, preOutput, cs, wuPre, wuPost, events, flags) == [inSynPSM |-> psm, outSynPreOutput |-> preOutput, currentSources |-> cs, outSynWUMPreCode |-> wuPre, inSynWUMPostCode |-> wuPost, spikeEvents |-> events, flags |-> flags]

hasThresholdCondition(g) == "thresholdCondition" \in g.flags
isAutoRefractoryRequired(g) == "autoRefractoryRequired" \in g.flags
hasResetCode(g) == "resetCode" \in g.flags
isDelayRequired(g) == "delayRequired" \in g.flags
isSpikeTimeRequired(g) == "spikeTimeRequired" \in g.flags
isPrevSpikeTimeRequired(g) == "prevSpikeTimeRequired" \in g.flags
isSpikeEventTimeRequired(g) == "spikeEventTimeRequired" \in g.flags
isPrevSpikeEventTimeRequired(g) == "prevSpikeEventTimeRequired" \in g.flags

\* The flags of a neuron model with a threshold condition, auto-refractoriness and reset code
ThresholdFlags == {"thresholdCondition", "autoRefractoryRequired", "resetCode"}

\* The flags that ask for spike times and spike-event times
TimeFlags == {"spikeTimeRequired", "prevSpikeTimeRequired", "spikeEventTimeRequired",
              "prevSpikeEventTimeRequired"}

\* The merged groups code is generated for: groups with none or several of each kind of
\* child, groups with every combination of threshold condition, auto-refractoriness and
\* reset code, and groups with one spike-event child and every combination of delay and
\* required times
NeuronUpdateGroups ==
    {NeuronUpdateGroup(psm, preOutput, cs, wuPre, wuPost, events, ThresholdFlags) :
        psm \in {0, MaxChildGroups}, preOutput \in {0, MaxChildGroups},
        cs \in {0, MaxChildGroups}, wuPre \in {0, MaxChildGroups},
        wuPost \in {0, MaxChildGroups}, events \in {0, MaxChildGroups}}
    \cup {NeuronUpdateGroup(1, 1, 1, 1, 1, 1, flags) : flags \in SUBSET ThresholdFlags}
    \cup {NeuronUpdateGroup(0, 0, 0, 0, 0, 1, {"thresholdCondition"} \cup delay \cup times) :
            delay \in {{}, {"delayRequired"}}, times \in SUBSET TimeFlags}
    \cup {NeuronUpdateGroup(0, 0, 0, 1, 1, 0, {"thresholdCondition", "delayRequired", v}) :
            v \in {"preVars", "postVars"}}

\* SynSpikeEvent::generateEventCondition: the event condition, and an else branch that
\* copies the spike-event times between the delay slots
generateEventCondition(g, index) ==
    LET copySET == IF isSpikeEventTimeRequired(g) THEN {"copySET"} ELSE {}
        copyPrevSET == IF isPrevSpikeEventTimeRequired(g) THEN {"copyPrevSET"} ELSE {}
    IN  Statement("eventCondition", index,
                  IF isDelayRequired(g)
                        /\ (isSpikeEventTimeRequired(g) \/ isPrevSpikeTimeRequired(g))
                  THEN {"else"} \cup copySET \cup copyPrevSET
                  ELSE {})

\* The incoming postsynaptic models, the outgoing presynaptic outputs and the current sources
InputCode(g) ==
    GenerateEach("inSynPSM", g.inSynPSM)
        \o GenerateEach("outSynPreOutput", g.outSynPreOutput)
        \o GenerateEach("currentSource", g.currentSources)

\* neuronEnv.add(getScalarType().addConst(), "Isyn", "$(_Isyn)")
ExposeIsyn == <<Statement("Isyn", 0, {})>>

\* const bool oldSpike = (threshold condition);
OldSpikeSnapshot(g) ==
    IF hasThresholdCondition(g) /\ isAutoRefractoryRequired(g)
    THEN <<Statement("oldSpike", 0, {})>>
    ELSE <<>>

\* The user's sim code
SimCode == <<Statement("simCode", 0, {})>>

\* The presynaptic dynamics of the outgoing groups, the postsynaptic dynamics of the
\* incoming groups and the spike-event conditions
WUChildCode(g) ==
    GenerateEach("preDynamics", g.outSynWUMPreCode)
        \o GenerateEach("postDynamics", g.inSynWUMPostCode)
        \o [i \in 1..g.spikeEvents |-> generateEventCondition(g, i - 1)]

\* A test that leaves "&& !oldSpike" out
TrueSpikeTest_NoOldSpike(g) ==
    IF hasThresholdCondition(g)
    THEN <<Statement("testTrueSpike", 0, IF hasResetCode(g) THEN {"reset"} ELSE {})>>
    ELSE <<>>

\* if((threshold condition) && !oldSpike) { emitTrueSpike; reset code } else { copies }
TrueSpikeTest(g) ==
    IF hasThresholdCondition(g)
    THEN <<Statement("testTrueSpike", 0,
                     (IF isAutoRefractoryRequired(g) THEN {"!oldSpike"} ELSE {})
                        \cup (IF hasResetCode(g) THEN {"reset"} ELSE {})
                        \cup (IF isDelayRequired(g)
                                    /\ (\/ isSpikeTimeRequired(g) \/ isPrevSpikeTimeRequired(g)
                                        \/ "preVars" \in g.flags \/ "postVars" \in g.flags)
                              THEN {"else"} ELSE {}))>>
    ELSE <<>>

\* A generator that takes the snapshot of the threshold condition next to the test
NeuronUpdateCode_SnapshotAtTest(g) ==
    InputCode(g) \o ExposeIsyn \o SimCode \o WUChildCode(g) \o OldSpikeSnapshot(g)
        \o TrueSpikeTest(g)

\* The code generateNeuronUpdate emits for a group, in order
NeuronUpdateCode(g) ==
    InputCode(g) \o ExposeIsyn \o OldSpikeSnapshot(g) \o SimCode \o WUChildCode(g)
        \o TrueSpikeTest(g)

\* The threshold condition and the event threshold condition of the models
ThresholdCondition(v) == v >= 1
EventThresholdCondition(v) == v >= 1

InitNeuronCode ==
    /\ nuArchetype = <<>> /\ nuCode = <<>> /\ nuPc = 0 /\ nuSteps = 0
    /\ lV \in 0..MaxV
    /\ oldSpike = FALSE /\ seT = InitialSET /\ prevSET = InitialPrevSET /\ executed = <<>>
    /\ VBeforeSim = 0 /\ VAfterSim = 0 /\ trueSpikes = 0 /\ resetRuns = 0
    /\ eventCondition = <<>>
    /\ IdleStep /\ IdleIR /\ IdleFuse /\ IdlePresyn /\ IdleNeuron /\ IdleRuntime /\ IdleModel /\ IdleSIMT

\* NeuronUpdateGroupMerged::generateNeuronUpdate
generateNeuronUpdate(g) ==
    /\ nuCode = <<>>
    /\ nuArchetype' = g
    /\ nuCode' = NeuronUpdateCode(g)
    /\ UNCHANGED <<nuPc, nuSteps, lV, oldSpike, seT, prevSET, executed, VBeforeSim,
                   VAfterSim, trueSpikes, resetRuns, eventCondition>>
    /\ UNCHANGED notCode

\* The delay slots after the queue pointer advanced: the slot written in the last update is
\* the one read in this one
AdvanceSlots(times) == [read |-> times.write, write |-> times.read]

\* The neuron enters the generated code in a timestep
updateNeuron ==
    /\ nuCode # <<>>
    /\ nuPc = 0 \/ nuPc > Len(nuCode)
    /\ nuSteps < MaxNeuronUpdates
    /\ nuPc' = 1
    /\ nuSteps' = nuSteps + 1
    /\ seT' = IF nuSteps = 0 THEN seT ELSE AdvanceSlots(seT)
    /\ prevSET' = IF nuSteps = 0 THEN prevSET ELSE AdvanceSlots(prevSET)
    /\ executed' = <<>> /\ trueSpikes' = 0 /\ resetRuns' = 0 /\ eventCondition' = <<>>
    /\ oldSpike' = FALSE
    /\ VBeforeSim' = lV /\ VAfterSim' = lV
    /\ UNCHANGED <<nuArchetype, nuCode, lV>>
    /\ UNCHANGED notCode

\* The statement the neuron executes next
CurrentOp == IF nuPc \in 1..Len(nuCode) THEN nuCode[nuPc].op ELSE "none"

\* What every executed statement does
Advance ==
    /\ nuPc' = nuPc + 1
    /\ executed' = Append(executed, nuCode[nuPc].op)
    /\ UNCHANGED <<nuArchetype, nuCode, nuSteps>>
    /\ UNCHANGED notCode

\* Postsynaptic model, presynaptic output, current source and pre and postsynaptic dynamics
\* code: none of them can write the neuron's variable
ExecuteChild ==
    /\ CurrentOp \in {"inSynPSM", "outSynPreOutput", "currentSource", "Isyn", "preDynamics",
                      "postDynamics"}
    /\ Advance
    /\ UNCHANGED <<lV, oldSpike, seT, prevSET, VBeforeSim, VAfterSim, trueSpikes, resetRuns,
                   eventCondition>>

\* const bool oldSpike = (threshold condition);
ExecuteOldSpike ==
    /\ CurrentOp = "oldSpike"
    /\ Advance
    /\ oldSpike' = ThresholdCondition(lV)
    /\ UNCHANGED <<lV, seT, prevSET, VBeforeSim, VAfterSim, trueSpikes, resetRuns,
                   eventCondition>>

\* The sim code
ExecuteSimCode ==
    /\ CurrentOp = "simCode"
    /\ Advance
    /\ \E v \in 0..MaxV : lV' = v /\ VAfterSim' = v
    /\ VBeforeSim' = lV
    /\ UNCHANGED <<oldSpike, seT, prevSET, trueSpikes, resetRuns, eventCondition>>

\* if((event threshold condition)) { emitSpikeLikeEvent } else { copy the times }
ExecuteEventCondition ==
    /\ CurrentOp = "eventCondition"
    /\ Advance
    /\ LET s == nuCode[nuPc]
           lseT == seT.read
           lprevSET == prevSET.read
           event == EventThresholdCondition(lV)
           copy == ~event /\ "else" \in s.flags
       IN  /\ eventCondition' = Append(eventCondition, event)
           /\ seT' = IF copy /\ "copySET" \in s.flags
                     THEN [seT EXCEPT !.write = lseT] ELSE seT
           /\ prevSET' = IF copy /\ "copyPrevSET" \in s.flags
                         THEN [prevSET EXCEPT !.write = lprevSET] ELSE prevSET
    /\ UNCHANGED <<lV, oldSpike, VBeforeSim, VAfterSim, trueSpikes, resetRuns>>

\* if((threshold condition) && !oldSpike) { emitTrueSpike; reset code }
ExecuteTrueSpikeTest ==
    /\ CurrentOp = "testTrueSpike"
    /\ Advance
    /\ LET s == nuCode[nuPc]
           spike == ThresholdCondition(lV) /\ ("!oldSpike" \in s.flags => ~oldSpike)
       IN  IF spike
           THEN /\ trueSpikes' = trueSpikes + 1
                /\ IF "reset" \in s.flags
                   THEN resetRuns' = resetRuns + 1 /\ lV' \in 0..MaxV
                   ELSE UNCHANGED <<resetRuns, lV>>
           ELSE UNCHANGED <<trueSpikes, resetRuns, lV>>
    /\ UNCHANGED <<oldSpike, seT, prevSET, VBeforeSim, VAfterSim, eventCondition>>

NextNeuronCode ==
    \/ \E g \in NeuronUpdateGroups : generateNeuronUpdate(g)
    \/ updateNeuron
    \/ ExecuteChild
    \/ ExecuteOldSpike
    \/ ExecuteSimCode
    \/ ExecuteEventCondition
    \/ ExecuteTrueSpikeTest

SpecNeuronCode == InitNeuronCode /\ [][NextNeuronCode]_vars

\* The neuron has left the generated code
UpdateDone == nuSteps > 0 /\ nuPc > Len(nuCode)

\* The positions of the statements of a kind in the emitted code
Positions(op) == {i \in DOMAIN nuCode : nuCode[i].op = op}

\* Every child group of a kind has its statement, once
EmittedOnce(op, count) ==
    /\ Cardinality(Positions(op)) = count
    /\ {nuCode[i].index : i \in Positions(op)} = 0..(count - 1)

\* The places of the kinds of statement in the order of spec section 4.6: the threshold
\* handling, snapshot included, last
ClaimedRank(op) ==
    CASE op = "inSynPSM" -> 1 [] op = "outSynPreOutput" -> 2 [] op = "currentSource" -> 3
      [] op = "Isyn" -> 4 [] op = "simCode" -> 5 [] op = "preDynamics" -> 6
      [] op = "postDynamics" -> 7 [] op = "eventCondition" -> 8 [] op = "oldSpike" -> 9
      [] op = "testTrueSpike" -> 10

\* The same order with the snapshot between the Isyn alias and the sim code
EmittedRank(op) ==
    CASE op = "inSynPSM" -> 1 [] op = "outSynPreOutput" -> 2 [] op = "currentSource" -> 3
      [] op = "Isyn" -> 4 [] op = "oldSpike" -> 5 [] op = "simCode" -> 6
      [] op = "preDynamics" -> 7 [] op = "postDynamics" -> 8 [] op = "eventCondition" -> 9
      [] op = "testTrueSpike" -> 10

\* Everything the group needs is in the emitted code
AllEmitted ==
    /\ EmittedOnce("inSynPSM", nuArchetype.inSynPSM)
    /\ EmittedOnce("outSynPreOutput", nuArchetype.outSynPreOutput)
    /\ EmittedOnce("currentSource", nuArchetype.currentSources)
    /\ EmittedOnce("Isyn", 1)
    /\ EmittedOnce("simCode", 1)
    /\ EmittedOnce("preDynamics", nuArchetype.outSynWUMPreCode)
    /\ EmittedOnce("postDynamics", nuArchetype.inSynWUMPostCode)
    /\ EmittedOnce("eventCondition", nuArchetype.spikeEvents)
    /\ EmittedOnce("oldSpike", IF hasThresholdCondition(nuArchetype)
                                     /\ isAutoRefractoryRequired(nuArchetype) THEN 1 ELSE 0)
    /\ EmittedOnce("testTrueSpike", IF hasThresholdCondition(nuArchetype) THEN 1 ELSE 0)

\* C21 as stated: the code of a group is emitted in the order of spec section 4.6, the
\* snapshot of the previous threshold value with the rest of the threshold handling, after
\* the sim code, the dynamics code and the spike-event conditions
C21_Original ==
    nuCode # <<>> =>
        /\ AllEmitted
        /\ \A i, j \in DOMAIN nuCode :
                i < j => ClaimedRank(nuCode[i].op) <= ClaimedRank(nuCode[j].op)

\* C21: for each merged neuron-update group the code is emitted, and run by a neuron, in this
\* order: every incoming postsynaptic model, every outgoing presynaptic output, every current
\* source, the Isyn alias, the snapshot of the threshold condition (when
\* autoRefractoryRequired), the sim code, the presynaptic dynamics, the postsynaptic
\* dynamics, every spike-event condition, and last the test for a true spike with the spike
\* emission and the reset
C21_EmissionOrder ==
    /\ nuCode # <<>> =>
        /\ AllEmitted
        /\ \A i, j \in DOMAIN nuCode :
                i < j => EmittedRank(nuCode[i].op) <= EmittedRank(nuCode[j].op)
    /\ UpdateDone => executed = [i \in DOMAIN nuCode |-> nuCode[i].op]

C21_Witness ==
    /\ UpdateDone
    /\ nuArchetype = NeuronUpdateGroup(MaxChildGroups, MaxChildGroups, MaxChildGroups,
                                       MaxChildGroups, MaxChildGroups, MaxChildGroups,
                                       ThresholdFlags)
    /\ \E i \in Positions("oldSpike"), j \in Positions("simCode") : i < j

\* C22: in each update a neuron emits a true spike if and only if the group has a threshold
\* condition that holds on the state after the sim code and, when autoRefractoryRequired,
\* did not hold on the state before the sim code; the reset code runs if and only if a spike
\* is emitted; without a threshold condition no true spike is emitted
C22_TrueSpike ==
    UpdateDone =>
        /\ trueSpikes = IF /\ hasThresholdCondition(nuArchetype)
                           /\ ThresholdCondition(VAfterSim)
                           /\ (isAutoRefractoryRequired(nuArchetype)
                                    => ~ThresholdCondition(VBeforeSim))
                        THEN 1 ELSE 0
        /\ resetRuns = IF hasResetCode(nuArchetype) THEN trueSpikes ELSE 0
        /\ ~hasThresholdCondition(nuArchetype) => trueSpikes = 0

C22_Witness ==
    /\ UpdateDone /\ nuSteps = MaxNeuronUpdates
    /\ isAutoRefractoryRequired(nuArchetype) /\ hasResetCode(nuArchetype)
    /\ ~ThresholdCondition(VBeforeSim) /\ ThresholdCondition(VAfterSim)
    /\ trueSpikes = 1 /\ resetRuns = 1

\* C28 as stated: in a group that requires delay and previous spike-event times, whenever a
\* spike-event condition was false the previous spike-event time of the read delay slot is
\* in the write delay slot, whatever other times are required
C28_Original ==
    (/\ nuCode # <<>>
     /\ isDelayRequired(nuArchetype) /\ isPrevSpikeEventTimeRequired(nuArchetype)
     /\ \E i \in DOMAIN eventCondition : ~eventCondition[i])
        => prevSET.write = prevSET.read

(***************************************************************************)
(* Part 9: index arithmetic.  The size of the bitmask array, the kernel    *)
(* indices of kernel-weight initialisation (genSynapseVarInit), the search *)
(* for a thread's group in a merged group (genParallelGroup) and the block *)
(* loop of sparse initialisation (genSparseSynapseVarInit).  Each piece    *)
(* of generated code is run by one thread on inputs from small sets.       *)
(***************************************************************************)

\* The variables of each piece
bitmaskVars == <<gp>>
kernelVars == <<kernelSizes, kernelIDs>>
bisectVars == <<startIDs, mergedRange, threadId, lo, hi, groupLid>>
sparseVars == <<sparseGroup, rBlock, iRow, idx, visited>>

InitSIMT ==
    /\ simtOp = "idle" /\ gp = <<>> /\ kernelSizes = <<>> /\ kernelIDs = <<>>
    /\ startIDs = <<>> /\ mergedRange = <<0, 0>> /\ threadId = 0 /\ lo = 0 /\ hi = 0
    /\ groupLid = <<>> /\ sparseGroup = <<>> /\ rBlock = 0 /\ iRow = 0
    /\ idx = 0 /\ visited = <<>>
    /\ IdleStep /\ IdleIR /\ IdleFuse /\ IdlePresyn /\ IdleNeuron /\ IdleRuntime /\ IdleModel /\ IdleCode

\* generateRunner: gpSize of a synapse group with BITMASK connectivity, from the numbers of
\* source and target neurons; the row stride is taken as the number of target neurons (a
\* backend that does not pad rows)
RunnerGpSize(numPre, numTrg) == (numPre * numTrg) \div 32 + 1

genBitmaskVariable(numPre, numTrg) ==
    /\ simtOp = "idle"
    /\ simtOp' = "bitmask"
    /\ gp' = [by |-> "generateRunner", numPre |-> numPre, rowStride |-> numTrg,
              gpSize |-> RunnerGpSize(numPre, numTrg)]
    /\ UNCHANGED <<kernelVars, bisectVars, sparseVars>>
    /\ UNCHANGED notSIMT

\* Runtime::allocate: gpSize of a synapse group with BITMASK connectivity
RuntimeGpSize(numPre, rowStride) == ceilDivide(numPre * rowStride, 32)

allocateBitmask(numPre, rowStride) ==
    /\ simtOp = "idle"
    /\ simtOp' = "bitmask"
    /\ gp' = [by |-> "Runtime::allocate", numPre |-> numPre, rowStride |-> rowStride,
              gpSize |-> RuntimeGpSize(numPre, rowStride)]
    /\ UNCHANGED <<kernelVars, bisectVars, sparseVars>>
    /\ UNCHANGED notSIMT

\* The product of the kernel sizes from dimension j on
RECURSIVE ProductFrom(_, _)
ProductFrom(sizes, j) == IF j > Len(sizes) THEN 1 ELSE sizes[j] * ProductFrom(sizes, j + 1)

\* The kernel sizes of the synapse groups initialised
KernelSizes == UNION {[1..d -> 1..MaxKernelSize] : d \in 1..MaxKernelDimensions}

\* The threads of the initialisation kernel that reach the group
NumKernelThreads(sizes) == padSize(ProductFrom(sizes, 1), KernelInitBlockSize)

\* An index without the modulus
KernelID_NoModulus(id, sizes, i) ==
    IF i < Len(sizes) THEN id \div ProductFrom(sizes, i + 1) ELSE id

\* const unsigned int kernelID<i> = (id / (product of the later sizes)) % size<i>, without
\* the division in the last dimension and without the modulus in the first (dimension i of
\* the model is dimension i - 1 of the code)
KernelID(id, sizes, i) ==
    LET quotient == IF i < Len(sizes) THEN id \div ProductFrom(sizes, i + 1) ELSE id
    IN  IF i > 1 THEN quotient % sizes[i] ELSE quotient

\* genSynapseVarInit for a group with kernel weights
genSynapseVarInit(sizes) ==
    /\ simtOp = "idle"
    /\ simtOp' = "kernelInit"
    /\ kernelSizes' = sizes
    /\ kernelIDs' = <<>>
    /\ UNCHANGED <<bitmaskVars, bisectVars, sparseVars>>
    /\ UNCHANGED notSIMT

\* The next thread runs the generated code: if(id < product of the sizes) { kernelID... }
InitKernelThread ==
    /\ simtOp = "kernelInit"
    /\ Len(kernelIDs) < NumKernelThreads(kernelSizes)
    /\ LET id == Len(kernelIDs)
       IN  kernelIDs' = Append(kernelIDs,
                               IF id < ProductFrom(kernelSizes, 1)
                               THEN [i \in 1..Len(kernelSizes) |-> KernelID(id, kernelSizes, i)]
                               ELSE <<>>)
    /\ UNCHANGED <<simtOp, kernelSizes, bitmaskVars, bisectVars, sparseVars>>
    /\ UNCHANGED notSIMT

\* The sum of the first k padded sizes
RECURSIVE SumTo(_, _)
SumTo(sizes, k) == IF k = 0 THEN 0 ELSE sizes[k] + SumTo(sizes, k - 1)

\* The start thread ids of the members of a merged group: member k starts where the padded
\* sizes of the members before it end
StartIDs(idStart, sizes) == [k \in 0..(Len(sizes) - 1) |-> idStart + SumTo(sizes, k)]

\* The padded sizes of the members of the merged groups
PaddedSizes == UNION {[1..n -> 1..MaxPaddedSize] : n \in 1..MaxMergedGroupSize}

\* a - b in unsigned int arithmetic: below zero the result wraps to 2^32 + (a - b), which is
\* kept as the pair of the modulus and the offset
UnsignedSub(a, b) == IF a >= b THEN a - b ELSE <<"2^32", a - b>>

\* A search that does not step over mid
NextLo_NoAdvance(mid) == mid

\* lo = mid + 1;
NextLo(mid) == mid + 1

\* genParallelGroup: the thread tests whether its id is in the range of the merged group; in
\* a group of one member lid is id - idStart, otherwise the search starts
genParallelGroup(sizes, idStart, id) ==
    /\ simtOp = "idle"
    /\ startIDs' = StartIDs(idStart, sizes)
    /\ mergedRange' = <<idStart, idStart + SumTo(sizes, Len(sizes))>>
    /\ threadId' = id
    /\ IF id >= idStart /\ id < idStart + SumTo(sizes, Len(sizes))
       THEN IF Len(sizes) = 1
            THEN /\ simtOp' = "inGroup"
                 /\ groupLid' = <<0, id - idStart>>
                 /\ UNCHANGED <<lo, hi>>
            ELSE /\ simtOp' = "bisect"
                 /\ lo' = 0
                 /\ hi' = Len(sizes)
                 /\ UNCHANGED groupLid
       ELSE /\ simtOp' = "outside"
            /\ UNCHANGED <<lo, hi, groupLid>>
    /\ UNCHANGED <<bitmaskVars, kernelVars, sparseVars>>
    /\ UNCHANGED notSIMT

\* One iteration of while(lo < hi)
BisectStep ==
    /\ simtOp = "bisect"
    /\ lo < hi
    /\ LET mid == (lo + hi) \div 2
       IN  IF threadId < startIDs[mid]
           THEN hi' = mid /\ lo' = lo
           ELSE lo' = NextLo(mid) /\ hi' = hi
    /\ UNCHANGED <<simtOp, startIDs, mergedRange, threadId, groupLid>>
    /\ UNCHANGED <<bitmaskVars, kernelVars, sparseVars>>
    /\ UNCHANGED notSIMT

\* After the loop: group = &d_merged...Group[lo - 1]; lid = id - groupStartID, in unsigned
\* arithmetic.  An index outside the array reads anything.
BisectEnd ==
    /\ simtOp = "bisect"
    /\ ~(lo < hi)
    /\ simtOp' = "inGroup"
    /\ LET index == UnsignedSub(lo, 1)
       IN  IF index \in DOMAIN startIDs
           THEN groupLid' = <<index, UnsignedSub(threadId, startIDs[index])>>
           ELSE \E groupStartID \in {0, threadId + 1} :
                    groupLid' = <<index, UnsignedSub(threadId, groupStartID)>>
    /\ UNCHANGED <<startIDs, mergedRange, threadId, lo, hi>>
    /\ UNCHANGED <<bitmaskVars, kernelVars, sparseVars>>
    /\ UNCHANGED notSIMT

\* The synapse groups with sparse connectivity that are initialised, the block size of the
\* kernel and the id of the thread within the group
SparseGroups ==
    {[numSrcNeurons |-> n, rowStride |-> s, blockSize |-> b, id |-> t] :
        n \in 1..MaxSparseSrcNeurons, s \in 1..MaxSparseRowStride,
        b \in 1..MaxSparseBlockSize, t \in 0..(MaxSparseRowStride - 1)}

\* const unsigned int numBlocks = (group->numSrcNeurons + blockSize - 1) / blockSize;
NumBlocks(g) == (g.numSrcNeurons + g.blockSize - 1) \div g.blockSize

\* Every block taken as full
NumRowsInBlock_Full(g, r) == g.blockSize

\* const unsigned numRowsInBlock = (r == (numBlocks - 1))
\*     ? ((group->numSrcNeurons - 1) % blockSize) + 1 : blockSize;
NumRowsInBlock(g, r) ==
    IF r = NumBlocks(g) - 1 THEN ((g.numSrcNeurons - 1) % g.blockSize) + 1 ELSE g.blockSize

\* genSparseSynapseVarInit: unsigned int idx = id; the loop through blocks starts
genSparseSynapseVarInit(g) ==
    /\ simtOp = "idle"
    /\ simtOp' = "sparseInit"
    /\ sparseGroup' = g
    /\ idx' = g.id
    /\ rBlock' = 0
    /\ iRow' = 0
    /\ visited' = <<>>
    /\ UNCHANGED <<bitmaskVars, kernelVars, bisectVars>>
    /\ UNCHANGED notSIMT

\* One iteration of the loop through the rows of a block: the row (r * blockSize) + i is
\* initialised at idx if the thread has a synapse in it, then idx += group->rowStride
SparseInitRow ==
    /\ simtOp = "sparseInit"
    /\ rBlock < NumBlocks(sparseGroup)
    /\ iRow < NumRowsInBlock(sparseGroup, rBlock)
    /\ visited' = Append(visited, <<(rBlock * sparseGroup.blockSize) + iRow, idx>>)
    /\ idx' = idx + sparseGroup.rowStride
    /\ iRow' = iRow + 1
    /\ UNCHANGED <<simtOp, sparseGroup, rBlock>>
    /\ UNCHANGED <<bitmaskVars, kernelVars, bisectVars>>
    /\ UNCHANGED notSIMT

\* The loop through rows ends and the loop through blocks goes on to the next block
SparseInitNextBlock ==
    /\ simtOp = "sparseInit"
    /\ rBlock < NumBlocks(sparseGroup)
    /\ ~(iRow < NumRowsInBlock(sparseGroup, rBlock))
    /\ rBlock' = rBlock + 1
    /\ iRow' = 0
    /\ UNCHANGED <<simtOp, sparseGroup, idx, visited>>
    /\ UNCHANGED <<bitmaskVars, kernelVars, bisectVars>>
    /\ UNCHANGED notSIMT

\* The loop through blocks ends
SparseInitEnd ==
    /\ simtOp = "sparseInit"
    /\ ~(rBlock < NumBlocks(sparseGroup))
    /\ simtOp' = "sparseInitDone"
    /\ UNCHANGED <<sparseGroup, rBlock, iRow, idx, visited>>
    /\ UNCHANGED <<bitmaskVars, kernelVars, bisectVars>>
    /\ UNCHANGED notSIMT

NextSIMT ==
    \/ \E numPre \in 1..MaxBitmaskPre, numTrg \in 1..MaxBitmaskRowStride :
            genBitmaskVariable(numPre, numTrg)
    \/ \E numPre \in 1..MaxBitmaskPre, rowStride \in 1..MaxBitmaskRowStride :
            allocateBitmask(numPre, rowStride)
    \/ \E sizes \in KernelSizes : genSynapseVarInit(sizes)
    \/ InitKernelThread
    \/ \E sizes \in PaddedSizes, idStart \in 0..MaxIdStart :
            \E id \in 0..(idStart + SumTo(sizes, Len(sizes))) :
                genParallelGroup(sizes, idStart, id)
    \/ BisectStep
    \/ BisectEnd
    \/ \E g \in SparseGroups : genSparseSynapseVarInit(g)
    \/ SparseInitRow
    \/ SparseInitNextBlock
    \/ SparseInitEnd

SpecSIMT == InitSIMT /\ [][NextSIMT]_vars

\* A thread that is in the search loop goes on executing it
SpecSIMTFair == SpecSIMT /\ WF_vars(BisectStep) /\ WF_vars(BisectEnd)

\* The least number of 32-bit words that hold n bits
CeilWords(n) == CHOOSE w \in 0..n : 32 * w >= n /\ (w = 0 \/ 32 * (w - 1) < n)

\* C23 as stated: the bitmask of a synapse group with BITMASK connectivity has exactly
\* ceil((numPre x rowStride) / 32) words, also when numPre x rowStride is a multiple of 32
C23_Original == gp # <<>> => gp.gpSize = CeilWords(gp.numPre * gp.rowStride)

\* The element of the flattened kernel that the indices k address
RECURSIVE WeightedSum(_, _, _)
WeightedSum(k, sizes, i) ==
    IF i > Len(sizes) THEN 0
    ELSE k[i] * ProductFrom(sizes, i + 1) + WeightedSum(k, sizes, i + 1)

\* C24: in kernel-weight initialisation every thread id below the product of the kernel
\* sizes gets indices kernelID_i with 0 <= kernelID_i < s_i whose weighted sum is id, so
\* distinct ids address distinct kernel elements and every element is addressed; threads
\* at or above the product initialise nothing
C24_KernelIndices ==
    LET product == ProductFrom(kernelSizes, 1)
    IN  /\ \A t \in DOMAIN kernelIDs :
            IF t - 1 < product
            THEN /\ Len(kernelIDs[t]) = Len(kernelSizes)
                 /\ \A i \in DOMAIN kernelSizes : kernelIDs[t][i] \in 0..(kernelSizes[i] - 1)
                 /\ WeightedSum(kernelIDs[t], kernelSizes, 1) = t - 1
            ELSE kernelIDs[t] = <<>>
        /\ \A t, u \in DOMAIN kernelIDs :
                (t < u /\ u - 1 < product) => kernelIDs[t] # kernelIDs[u]
        /\ (simtOp = "kernelInit" /\ Len(kernelIDs) >= product) =>
                Cardinality({kernelIDs[t] : t \in 1..product}) = product

C24_Witness ==
    /\ simtOp = "kernelInit"
    /\ kernelSizes = <<2, 3, 2>>
    /\ Len(kernelIDs) = NumKernelThreads(kernelSizes)
    /\ kernelIDs[8] = <<1, 0, 1>>
    /\ kernelIDs[12] = <<1, 2, 1>>

\* C29: the search over the start ids of a merged group with two or more members
\* terminates, and for a thread id in the range of the merged group it ends with lo - 1 the
\* greatest index k with start[k] <= id, so lo >= 1 and lid = id - start[lo - 1] is not
\* negative
C29_Bisect ==
    /\ [](simtOp = "bisect" =>
            /\ lo <= hi /\ hi <= Cardinality(DOMAIN startIDs)
            /\ \A k \in DOMAIN startIDs : k < lo => startIDs[k] <= threadId
            /\ \A k \in DOMAIN startIDs : k >= hi => startIDs[k] > threadId)
    /\ []((simtOp = "inGroup" /\ Cardinality(DOMAIN startIDs) >= 2) =>
            /\ lo >= 1
            /\ lo - 1 \in DOMAIN startIDs
            /\ startIDs[lo - 1] <= threadId
            /\ \A k \in DOMAIN startIDs : startIDs[k] <= threadId => k <= lo - 1
            /\ groupLid = <<lo - 1, threadId - startIDs[lo - 1]>>
            /\ groupLid[2] >= 0)
    /\ (simtOp = "bisect") ~> (simtOp = "inGroup")

C29_Witness ==
    /\ simtOp = "inGroup"
    /\ startIDs = StartIDs(1, <<2, 1, 2>>)
    /\ threadId = 5
    /\ lo = 3
    /\ groupLid = <<2, 1>>

\* C30: in sparse synapse variable initialisation with numSrcNeurons >= 1 the block loop
\* goes through every row 0..numSrcNeurons-1 once, in increasing order, and through no row
\* >= numSrcNeurons, and at row r the synapse index idx is r x rowStride + id
C30_SparseRows ==
    sparseGroup # <<>> =>
        /\ \A k \in DOMAIN visited :
                /\ visited[k][1] = k - 1
                /\ visited[k][1] < sparseGroup.numSrcNeurons
                /\ visited[k][2] = (k - 1) * sparseGroup.rowStride + sparseGroup.id
        /\ simtOp = "sparseInitDone" => Len(visited) = sparseGroup.numSrcNeurons

C30_Witness ==
    /\ simtOp = "sparseInitDone"
    /\ sparseGroup = [numSrcNeurons |-> 5, rowStride |-> 2, blockSize |-> 3, id |-> 1]
    /\ visited = <<<<0, 1>>, <<1, 3>>, <<2, 5>>, <<3, 7>>, <<4, 9>>>>

=============================================================================
